---- MODULE Spec2Model ----
(***************************************************************************)
(* DocSort OCR core: the job tracker (ocr_job_store.py), the persistent    *)
(* text cache (ocr_cache_store.py), the extraction pipeline                *)
(* (ocr_suggestion_service.py) and the background watcher                  *)
(* (ocr_watch_cache.py), as state machines.                                *)
(*                                                                         *)
(* Time is counted in ticks, TicksPerSec ticks to the second: the wall     *)
(* clock (_utcnow) has sub-second resolution, a stored updated_at          *)
(* (_to_iso_z) has not.                                                    *)
(***************************************************************************)
EXTENDS Integers, Sequences, FiniteSets, TLC

VARIABLES
    jobs,       \* table ocr_jobs: job key -> row (NoRow when absent)
    now,        \* the wall clock, in ticks
    ret,        \* the count the last mark_stalled_jobs, prune_terminal_jobs or
                \* clear_all_jobs call returned
    calls,      \* tracker calls made so far
    call,       \* concurrent upsert_job calls: worker -> position and locals
    sweep,      \* a mark_stalled_jobs call in progress: position and locals
    row0,       \* the row of RaceKey before the concurrent calls started
    file,       \* the PDF on disk: existence, size, mtime (ticks), content
    memo,       \* _text_cache of the running process, least recently used first
    pcache,     \* table ocr_cache: cache key -> extracted_text, a row per key held
    last,       \* the last get_text_for_pdf call: the file it saw, what it
                \* returned and which extraction stages it ran
    watch,      \* the watcher process: position, locals, _stall_last_sweep
    out,        \* what the last read of a store returned (get_job, can_retry,
                \* get_cached_text, has_cache_row)
    threads,    \* get_text_for_pdf calls of the worker threads of one process,
                \* statement by statement: thread -> position and locals
    ui,         \* the interactive process: its OCR worker, its own _text_cache
                \* and the status badge it shows
    scratch,    \* the OCR input cache: the staged copies in the scratch
                \* directory, _CACHE_MAP of each process, the copies in use
    tray        \* the tray application: _proc, the stop event, the icon, the
                \* watcher subprocesses alive, the monitor thread and the
                \* menu thread with their positions and locals

textVars == <<file, memo, pcache, last>>

vars == <<jobs, now, ret, calls, call, sweep, row0, file, memo, pcache, last, watch, out,
          threads, ui, scratch, tray>>

----------------------------------------------------------------------------
(* Bounds of the model *)

TicksPerSec == 2
TickStep == 3
MaxTime == 6
MaxCalls == 4

(* Program constants *)

DEFAULT_MAX_ATTEMPTS == 3

STATUS_ALLOWED == {"QUEUED", "RUNNING", "DONE", "FAILED"}

----------------------------------------------------------------------------
(* Values *)

Fp(size, mtime) == [size |-> size, mtime |-> mtime]
Key(path, pages, fp) == [path |-> path, pages |-> pages, fp |-> fp]

\* _job_key: one identity per (normalized path, max_pages, fingerprint)
JobKeys == { Key("a.pdf", 1, Fp(10, 1)), Key("a.pdf", 1, Fp(20, 1)) }

\* updated_at as stored text: canonical ("...Z"), legacy ("...+00:00") or
\* text that datetime.fromisoformat rejects (also the empty string)
Stamp(fmt, sec) == [fmt |-> fmt, sec |-> sec]
BadStamp == Stamp("bad", 0)

\* last_error texts
Err(kind, n) == [kind |-> kind, n |-> n]
NoneErr == Err("none", 0)                       \* NULL / None
CallerErr == Err("caller", 0)                   \* a text the caller passes
MaxAttemptsErr(cap) == Err("max_attempts", cap) \* "Max attempts exceeded (cap)"
StalledRunningErr(s) == Err("stalled_running", s)
StalledQueuedErr(s) == Err("stalled_queued", s)
InvalidStampErr == Err("invalid_updated_at", 0)

NoWorker == "none"                              \* NULL / None
WORKER_ID == "ocr_watch_cache"
UI_WORKER == "ui"
HEALTH_WORKER == "health"

Row(status, updated_at, attempts, last_error, worker_id, max_attempts) ==
    [status |-> status, updated_at |-> updated_at, attempts |-> attempts,
     last_error |-> last_error, worker_id |-> worker_id,
     max_attempts |-> max_attempts]

NoRow == Row("NONE", BadStamp, 0, NoneErr, NoWorker, 0)

Max(a, b) == IF a >= b THEN a ELSE b

----------------------------------------------------------------------------
(* ocr_job_store.py: pure helpers *)

\* _to_iso_z: the instant, microseconds dropped, in the canonical encoding
ToIsoZ(t) == Stamp("Z", t \div TicksPerSec)

\* _parse_dt: the instant of a stored text in ticks, -1 for None
ParseDt(raw) ==
    IF raw.fmt = "bad" THEN -1 ELSE raw.sec * TicksPerSec

\* str.upper() on the status texts callers pass
Upper(s) ==
    CASE s = "queued" -> "QUEUED"
      [] s = "running" -> "RUNNING"
      [] s = "done" -> "DONE"
      [] s = "failed" -> "FAILED"
      [] OTHER -> s

\* can_retry answering yes whatever the attempts
can_retry_Always(job, max_attempts) == TRUE

\* can_retry: attempts < job.get("max_attempts", max_attempts)
can_retry(job, max_attempts) ==
    LET cap == IF job.status = "NONE" THEN max_attempts ELSE job.max_attempts
    IN  job.attempts < cap

\* upsert_job with the ceiling test off by one (attempts > ceiling)
UpsertRow_CapOffByOne(prior, status, last_error, worker_id, max_attempts, t) ==
    LET hasRow == prior.status # "NONE"
        prior_attempts == IF hasRow THEN prior.attempts ELSE 0
        capped_attempts ==
            IF hasRow THEN Max(max_attempts, prior.max_attempts) ELSE max_attempts
        carried_error ==
            IF last_error # NoneErr THEN last_error
            ELSE IF hasRow THEN prior.last_error ELSE NoneErr
        effective_worker ==
            IF worker_id # NoWorker THEN worker_id
            ELSE IF hasRow THEN prior.worker_id ELSE NoWorker
        coerced == status \in {"QUEUED", "RUNNING"} /\ prior_attempts > capped_attempts
    IN  Row(IF coerced THEN "FAILED" ELSE status,
            ToIsoZ(t),
            IF ~coerced /\ status = "RUNNING" THEN prior_attempts + 1 ELSE prior_attempts,
            IF coerced THEN MaxAttemptsErr(capped_attempts) ELSE carried_error,
            effective_worker,
            capped_attempts)

\* upsert_job counting a QUEUED request as an attempt too
UpsertRow_CountsQueued(prior, status, last_error, worker_id, max_attempts, t) ==
    LET hasRow == prior.status # "NONE"
        prior_attempts == IF hasRow THEN prior.attempts ELSE 0
        capped_attempts ==
            IF hasRow THEN Max(max_attempts, prior.max_attempts) ELSE max_attempts
        carried_error ==
            IF last_error # NoneErr THEN last_error
            ELSE IF hasRow THEN prior.last_error ELSE NoneErr
        effective_worker ==
            IF worker_id # NoWorker THEN worker_id
            ELSE IF hasRow THEN prior.worker_id ELSE NoWorker
        coerced == status \in {"QUEUED", "RUNNING"} /\ prior_attempts >= capped_attempts
    IN  Row(IF coerced THEN "FAILED" ELSE status,
            ToIsoZ(t),
            IF ~coerced /\ status \in {"RUNNING", "QUEUED"}
            THEN prior_attempts + 1 ELSE prior_attempts,
            IF coerced THEN MaxAttemptsErr(capped_attempts) ELSE carried_error,
            effective_worker,
            capped_attempts)

\* upsert_job storing the requested ceiling whatever the row held
UpsertRow_CeilingFollowsRequest(prior, status, last_error, worker_id, max_attempts, t) ==
    LET hasRow == prior.status # "NONE"
        prior_attempts == IF hasRow THEN prior.attempts ELSE 0
        capped_attempts == max_attempts
        carried_error ==
            IF last_error # NoneErr THEN last_error
            ELSE IF hasRow THEN prior.last_error ELSE NoneErr
        effective_worker ==
            IF worker_id # NoWorker THEN worker_id
            ELSE IF hasRow THEN prior.worker_id ELSE NoWorker
        coerced == status \in {"QUEUED", "RUNNING"} /\ prior_attempts >= capped_attempts
    IN  Row(IF coerced THEN "FAILED" ELSE status,
            ToIsoZ(t),
            IF ~coerced /\ status = "RUNNING" THEN prior_attempts + 1 ELSE prior_attempts,
            IF coerced THEN MaxAttemptsErr(capped_attempts) ELSE carried_error,
            effective_worker,
            capped_attempts)

\* upsert_job counting a RUNNING request as an attempt even when it is
\* refused
UpsertRow_CountsRefused(prior, status, last_error, worker_id, max_attempts, t) ==
    LET hasRow == prior.status # "NONE"
        prior_attempts == IF hasRow THEN prior.attempts ELSE 0
        capped_attempts ==
            IF hasRow THEN Max(max_attempts, prior.max_attempts) ELSE max_attempts
        carried_error ==
            IF last_error # NoneErr THEN last_error
            ELSE IF hasRow THEN prior.last_error ELSE NoneErr
        effective_worker ==
            IF worker_id # NoWorker THEN worker_id
            ELSE IF hasRow THEN prior.worker_id ELSE NoWorker
        coerced == status \in {"QUEUED", "RUNNING"} /\ prior_attempts >= capped_attempts
    IN  Row(IF coerced THEN "FAILED" ELSE status,
            ToIsoZ(t),
            IF status = "RUNNING" THEN prior_attempts + 1 ELSE prior_attempts,
            IF coerced THEN MaxAttemptsErr(capped_attempts) ELSE carried_error,
            effective_worker,
            capped_attempts)

\* upsert_job, lines 169-213: the row written, from the row read (prior),
\* the normalized status and the remaining arguments; t is _utcnow()
UpsertRow(prior, status, last_error, worker_id, max_attempts, t) ==
    LET hasRow == prior.status # "NONE"
        prior_attempts == IF hasRow THEN prior.attempts ELSE 0
        capped_attempts ==
            IF hasRow THEN Max(max_attempts, prior.max_attempts) ELSE max_attempts
        carried_error ==
            IF last_error # NoneErr THEN last_error
            ELSE IF hasRow THEN prior.last_error ELSE NoneErr
        effective_worker ==
            IF worker_id # NoWorker THEN worker_id
            ELSE IF hasRow THEN prior.worker_id ELSE NoWorker
        coerced == status \in {"QUEUED", "RUNNING"} /\ prior_attempts >= capped_attempts
    IN  Row(IF coerced THEN "FAILED" ELSE status,
            ToIsoZ(t),
            IF ~coerced /\ status = "RUNNING" THEN prior_attempts + 1 ELSE prior_attempts,
            IF coerced THEN MaxAttemptsErr(capped_attempts) ELSE carried_error,
            effective_worker,
            capped_attempts)

\* mark_stalled_jobs looking at the age of QUEUED rows only
StallReason_QueuedOnly(row, running_stale_seconds, queued_stale_seconds, t) ==
    LET parsed == ParseDt(row.updated_at)
        queued_cutoff == t - queued_stale_seconds * TicksPerSec
    IN  IF parsed = -1 THEN InvalidStampErr
        ELSE IF row.status = "QUEUED" /\ parsed < queued_cutoff
             THEN StalledQueuedErr(queued_stale_seconds)
        ELSE NoneErr

\* mark_stalled_jobs failing a row exactly as old as the timeout
StallReason_Inclusive(row, running_stale_seconds, queued_stale_seconds, t) ==
    LET parsed == ParseDt(row.updated_at)
        running_cutoff == t - running_stale_seconds * TicksPerSec
        queued_cutoff == t - queued_stale_seconds * TicksPerSec
    IN  IF parsed = -1 THEN InvalidStampErr
        ELSE IF row.status = "RUNNING" /\ parsed <= running_cutoff
             THEN StalledRunningErr(running_stale_seconds)
        ELSE IF row.status = "QUEUED" /\ parsed <= queued_cutoff
             THEN StalledQueuedErr(queued_stale_seconds)
        ELSE NoneErr

\* mark_stalled_jobs, lines 333-340: the reason a selected row is stalled
\* at instant t, NoneErr when it is not
StallReason(row, running_stale_seconds, queued_stale_seconds, t) ==
    LET parsed == ParseDt(row.updated_at)
        running_cutoff == t - running_stale_seconds * TicksPerSec
        queued_cutoff == t - queued_stale_seconds * TicksPerSec
    IN  IF parsed = -1 THEN InvalidStampErr
        ELSE IF row.status = "RUNNING" /\ parsed < running_cutoff
             THEN StalledRunningErr(running_stale_seconds)
        ELSE IF row.status = "QUEUED" /\ parsed < queued_cutoff
             THEN StalledQueuedErr(queued_stale_seconds)
        ELSE NoneErr

\* mark_stalled_jobs, lines 325-342: the SELECT and the list of updates
\* built from it, as key -> reason (NoneErr: no update for the key)
StalledUpdates(table, running_stale_seconds, queued_stale_seconds, t) ==
    [k \in JobKeys |->
        IF table[k].status \in {"RUNNING", "QUEUED"}
        THEN StallReason(table[k], running_stale_seconds, queued_stale_seconds, t)
        ELSE NoneErr]

\* mark_stalled_jobs, lines 343-352: UPDATE ... WHERE job_key = ?
ApplyStalled(table, updates, t, worker_id) ==
    [k \in JobKeys |->
        IF updates[k] # NoneErr /\ table[k].status # "NONE"
        THEN [table[k] EXCEPT !.status = "FAILED", !.last_error = updates[k],
                              !.updated_at = ToIsoZ(t), !.worker_id = worker_id]
        ELSE table[k]]

UpdateCount(updates) == Cardinality({k \in JobKeys : updates[k] # NoneErr})

----------------------------------------------------------------------------
(* ocr_cache_store.py and ocr_suggestion_service.py: values and helpers *)

\* a text, by what the pipeline looks at: which text, len(text) and
\* len(text.split())
Text(id, chars, words) == [id |-> id, chars |-> chars, words |-> words]
NoText == Text("", 0, 0)                        \* the empty string

\* limits of the pipeline
TEXT_CACHE_MAX_ENTRIES == 128
STORED_TEXT_CHARS == 200000
MIN_TEXT_CHARS == 200
MIN_TEXT_WORDS == 15
OCR_ENGINE_VERSION == 1

\* what a PDF holds: the text of its text layer (pypdf) and the text the
\* recognition of its page images yields, each for the first page
Body(layer, ocr) == [layer |-> layer, ocr |-> ocr]
Bodies ==
    { Body(Text("typed", 500, 80), NoText),
      Body(NoText, Text("scanned receipt", 50, 5)),
      Body(NoText, Text("scanned letter", 900, 150)),
      Body(NoText, NoText),
      Body(Text("typed book", STORED_TEXT_CHARS + 1, 30000), NoText) }

File(exists, size, mtime, body) ==
    [exists |-> exists, size |-> size, mtime |-> mtime, body |-> body]
NoFile == File(FALSE, 0, 0, Body(NoText, NoText))

NoFp == Fp(-1, -1)                               \* the empty fingerprint ""

PdfPath == "a.pdf"
EmptyCache == [k \in {} |-> NoText]             \* ocr_cache without rows

\* the record of a get_text_for_pdf call; stats collects the (size, mtime)
\* of the files whose text calls have computed and cached
Called(f, max_pages, text, source, pypdf, ocr, stats) ==
    [valid |-> TRUE, file |-> f, pages |-> max_pages, text |-> text,
     source |-> source, pypdf |-> pypdf, ocr |-> ocr, stats |-> stats]
NoLast == [Called(NoFile, 0, NoText, "none", FALSE, FALSE, {}) EXCEPT !.valid = FALSE]

\* what a read returned: the row get_job found and its identity (NoRow for
\* None), the text of get_cached_text, the truth value of can_retry and
\* has_cache_row
Out(op, key, row, text, flag) ==
    [op |-> op, key |-> key, row |-> row, text |-> text, flag |-> flag]
NoKey == Key("", 0, NoFp)
NoOut == Out("none", NoKey, NoRow, NoText, FALSE)

\* the worker threads of a process that run get_text_for_pdf at the same time
Threads == {"t1", "t2"}
\* the locals of _try_ocr: the pages of the open document, the page, scale
\* and segmentation mode it is at, the readings of the attempts made on
\* the page (as logged), best_text, best_score and texts
NoOcr ==
    [doc |-> <<>>, page |-> 0, scale |-> 0, psm |-> 0, tried |-> <<>>,
     best |-> NoText, score |-> -1, texts |-> <<>>]
\* a thread outside get_text_for_pdf: its position, the path it was given,
\* the record of its call and the locals of its recognition
NoRun == [pc |-> "idle", path |-> "", run |-> NoLast, ocr |-> NoOcr]
NoThreads == [t \in Threads |-> NoRun]
\* no interactive process: no worker, an empty memoizer, no call in
\* progress, no badge computed
NoUi == [pc |-> "off", memo |-> <<>>, run |-> NoLast, badge |-> "none"]
\* the processes that stage PDFs into the scratch directory
Procs == {"watcher", "ui"}
\* the paths cache_pdf_for_ocr takes and returns: None, the PDF in the
\* source folder, the staged copy with unique name id
NoPath == [kind |-> "none", id |-> 0]
Original == [kind |-> "original", id |-> 0]
Staged(id) == [kind |-> "staged", id |-> id]
\* no call of cache_pdf_for_ocr yet
NoCopyCall == [kind |-> "unset", id |-> 0]
\* the scratch directory <source_root>/_docsort_cache/ocr: how the source
\* root is configured, the staged copies, the number the next unique name
\* takes, the count of other copies with a later mtime, _CACHE_MAP of each
\* process, the path each process's recognition reads, and what the last
\* cache_pdf_for_ocr call returned
NoScratch ==
    [root |-> "resolved", files |-> {}, next |-> 1, newer |-> 0,
     map |-> [p \in Procs |-> {}], held |-> [p \in Procs |-> NoPath],
     ret |-> NoCopyCall]

\* the tray application before it starts: no subprocess (_proc None, as 0),
\* the stop event clear, the red icon; mon and menu are the monitor thread
\* and the thread that runs the menu callbacks, r and proc their locals
NoTray ==
    [proc |-> 0, alive |-> {}, next |-> 1, stop |-> FALSE, icon |-> "red",
     mon |-> [pc |-> "off", r |-> FALSE],
     menu |-> [pc |-> "off", item |-> "none", proc |-> 0, r |-> FALSE]]

\* how the storage behaves during a call: it works, the connection (or the
\* first statement) raises, or a statement raises after the call's first
\* commit
DbOk == "ok"
DbConnectError == "connect"
DbLateError == "late"

\* a storage call whose exception is passed on as if it had succeeded
OnError_Ignored(db, result, fallback) == result

\* try: ... except Exception: log and return the fallback
OnError(db, result, fallback) == IF db = DbOk THEN result ELSE fallback

\* compute_fingerprint: "<st_size>:<int(st_mtime)>", "" when stat fails
compute_fingerprint(f) ==
    IF f.exists THEN Fp(f.size, f.mtime \div TicksPerSec) ELSE NoFp

\* _cache_key: "<resolved path>::<int(st_mtime)>::<max_pages>", mtime 0
\* when stat fails
MemoKey(path, f, max_pages) ==
    [path |-> path, mtime |-> IF f.exists THEN f.mtime \div TicksPerSec ELSE 0,
     pages |-> max_pages]

\* the primary key of ocr_cache
CacheKey(path, fp, max_pages) ==
    [path |-> path, fp |-> fp, pages |-> max_pages, version |-> OCR_ENGINE_VERSION]

\* get_cached_text: the stored text, "" for no row, an empty text or an
\* empty effective fingerprint
get_cached_text(cache, path, f, max_pages, fingerprint) ==
    LET effective_fingerprint ==
            IF fingerprint # NoFp THEN fingerprint ELSE compute_fingerprint(f)
        key == CacheKey(path, effective_fingerprint, max_pages)
    IN  IF effective_fingerprint = NoFp THEN NoText
        ELSE IF key \in DOMAIN cache THEN cache[key]
        ELSE NoText

\* is_cached: bool(get_cached_text(...))
is_cached(cache, path, f, max_pages, fingerprint) ==
    get_cached_text(cache, path, f, max_pages, fingerprint) # NoText

\* text[:200_000]
Capped(text) ==
    IF text.chars > STORED_TEXT_CHARS
    THEN [text EXCEPT !.chars = STORED_TEXT_CHARS]
    ELSE text

\* upsert_cached_text leaving a row that is already there (INSERT OR IGNORE)
upsert_cached_text_KeepsOldRow(cache, path, f, max_pages, text, fingerprint) ==
    LET effective_fingerprint ==
            IF fingerprint # NoFp THEN fingerprint ELSE compute_fingerprint(f)
        key == CacheKey(path, effective_fingerprint, max_pages)
    IN  IF effective_fingerprint = NoFp THEN cache
        ELSE cache @@ (key :> Capped(text))

\* upsert_cached_text: the table after INSERT ... ON CONFLICT DO UPDATE
upsert_cached_text(cache, path, f, max_pages, text, fingerprint) ==
    LET effective_fingerprint ==
            IF fingerprint # NoFp THEN fingerprint ELSE compute_fingerprint(f)
        key == CacheKey(path, effective_fingerprint, max_pages)
    IN  IF effective_fingerprint = NoFp THEN cache
        ELSE (key :> Capped(text)) @@ cache

\* _text_cache as a sequence of entries, least recently used first
MemoHas(m, key) == \E i \in 1..Len(m) : m[i].key = key
MemoGet(m, key) == m[CHOOSE i \in 1..Len(m) : m[i].key = key].text
MemoWithout(m, key) == SelectSeq(m, LAMBDA e : e.key # key)
\* _text_cache.move_to_end(key)
MoveToEnd(m, key) == MemoWithout(m, key) \o <<[key |-> key, text |-> MemoGet(m, key)]>>
\* an insert that, over the limit, drops the entry at the recent end
MemoPut_EvictsNewest(m, key, text) ==
    LET m1 == IF MemoHas(m, key)
              THEN [i \in 1..Len(m) |->
                        IF m[i].key = key THEN [key |-> key, text |-> text] ELSE m[i]]
              ELSE m \o <<[key |-> key, text |-> text]>>
        m2 == MoveToEnd(m1, key)
    IN  IF Len(m2) > TEXT_CACHE_MAX_ENTRIES THEN SubSeq(m2, 1, Len(m2) - 1) ELSE m2

\* _text_cache[key] = text; move_to_end(key); popitem(last=False) when over
\* the limit
MemoPut(m, key, text) ==
    LET m1 == IF MemoHas(m, key)
              THEN [i \in 1..Len(m) |->
                        IF m[i].key = key THEN [key |-> key, text |-> text] ELSE m[i]]
              ELSE m \o <<[key |-> key, text |-> text]>>
        m2 == MoveToEnd(m1, key)
    IN  IF Len(m2) > TEXT_CACHE_MAX_ENTRIES THEN Tail(m2) ELSE m2

\* a gate that asks for recognition only when the text is short in both
\* characters and words
Weak_BothShort(text) == text.chars < MIN_TEXT_CHARS /\ text.words < MIN_TEXT_WORDS

\* the quality gate of get_text_for_pdf, line 332
Weak(text) == text.chars < MIN_TEXT_CHARS \/ text.words < MIN_TEXT_WORDS

\* the extraction with the fallback's text always taken, empty or not
Extraction_FallbackAlwaysReplaces(cache, path, f, max_pages) ==
    LET fingerprint == compute_fingerprint(f)
        persistent_text ==
            IF fingerprint # NoFp
            THEN get_cached_text(cache, path, f, max_pages, fingerprint)
            ELSE NoText
        cache_hit == persistent_text # NoText
        text1 == IF cache_hit THEN persistent_text ELSE f.body.layer
    IN  [fingerprint |-> fingerprint, cache_hit |-> cache_hit,
         pypdf |-> ~cache_hit, ocr |-> Weak(text1),
         text |-> IF Weak(text1) THEN f.body.ocr ELSE text1]

\* get_text_for_pdf, lines 311-364, past the memoizer: the text read from
\* the persistent cache, the stages run and the text returned
Extraction(cache, path, f, max_pages) ==
    LET fingerprint == compute_fingerprint(f)
        persistent_text ==
            IF fingerprint # NoFp
            THEN get_cached_text(cache, path, f, max_pages, fingerprint)
            ELSE NoText
        cache_hit == persistent_text # NoText
        run_pypdf == ~cache_hit
        text1 == IF cache_hit THEN persistent_text ELSE f.body.layer
        run_ocr == Weak(text1)
        text2 == IF run_ocr /\ f.body.ocr # NoText THEN f.body.ocr ELSE text1
    IN  [fingerprint |-> fingerprint, cache_hit |-> cache_hit,
         pypdf |-> run_pypdf, ocr |-> run_ocr, text |-> text2]

----------------------------------------------------------------------------
(* The job tracker called from one thread: every call runs to completion *)

\* what callers pass
StatusInputs == STATUS_ALLOWED \cup {"running", "PAUSED"}
CapInputs == {2, DEFAULT_MAX_ATTEMPTS}
ErrInputs == {NoneErr, CallerErr}
StalePairs == {<<1, 2>>}
\* callers pass an error text only with FAILED
UpsertArgs ==
    {a \in StatusInputs \X ErrInputs \X CapInputs :
        a[2] # NoneErr => Upper(a[1]) = "FAILED"}

\* rows a table on disk may hold when the process starts
StoredRows ==
    { NoRow,
      Row("RUNNING", BadStamp, 1, NoneErr, WORKER_ID, DEFAULT_MAX_ATTEMPTS),
      Row("DONE", Stamp("legacy", 0), 1, NoneErr, WORKER_ID, DEFAULT_MAX_ATTEMPTS) }

\* at most one identity has a row when the process starts
StoredTables ==
    {j \in [JobKeys -> StoredRows] :
        \E k \in JobKeys : \A k2 \in JobKeys \ {k} : j[k2] = NoRow}

NoCall == [pc |-> "idle", status |-> "NONE", cap |-> 0, err |-> NoneErr,
           wid |-> NoWorker, t |-> 0, prior |-> NoRow]
Workers == {"w1", "w2"}
NoSweep == [pc |-> "idle", updates |-> [k \in JobKeys |-> NoneErr], t |-> 0]
\* no watcher process
WatchOff == [pc |-> "off", mode |-> "scan", fp |-> NoFp, seen |-> NoFp, swept |-> 0]

\* no file, empty caches, no extraction call made, no watcher
TextIdle ==
    /\ file = NoFile
    /\ memo = <<>>
    /\ pcache = EmptyCache
    /\ last = NoLast
    /\ watch = WatchOff

Init ==
    /\ jobs \in StoredTables
    /\ now = 0
    /\ ret = 0
    /\ calls = 0
    /\ call = [w \in Workers |-> NoCall]
    /\ sweep = NoSweep
    /\ row0 = NoRow
    /\ out = NoOut
    /\ threads = NoThreads
    /\ ui = NoUi
    /\ scratch = NoScratch
    /\ tray = NoTray
    /\ TextIdle

\* upsert_job(path, max_pages, status, fingerprint, last_error, worker_id, max_attempts)
Upsert(k, status, last_error, worker_id, max_attempts) ==
    /\ calls < MaxCalls
    /\ calls' = calls + 1
    /\ jobs' = IF Upper(status) \in STATUS_ALLOWED
               THEN [jobs EXCEPT ![k] = UpsertRow(jobs[k], Upper(status), last_error,
                                                  worker_id, max_attempts, now)]
               ELSE jobs
    /\ UNCHANGED <<now, ret, call, sweep, row0, tray, threads, ui, scratch, out, textVars, watch>>

\* mark_stalled_jobs(running_stale_seconds, queued_stale_seconds)
MarkStalled(rt, qt) ==
    LET updates == StalledUpdates(jobs, rt, qt, now)
    IN  /\ calls < MaxCalls
        /\ calls' = calls + 1
        /\ jobs' = ApplyStalled(jobs, updates, now, HEALTH_WORKER)
        /\ ret' = UpdateCount(updates)
        /\ UNCHANGED <<now, call, sweep, row0, tray, threads, ui, scratch, out, textVars, watch>>

\* clear_job(path, max_pages, fingerprint)
ClearJob(k) ==
    /\ calls < MaxCalls
    /\ calls' = calls + 1
    /\ jobs' = [jobs EXCEPT ![k] = NoRow]
    /\ UNCHANGED <<now, ret, call, sweep, row0, tray, threads, ui, scratch, out, textVars, watch>>

\* the wall clock advances
Tick ==
    /\ now + TickStep <= MaxTime
    /\ now' = now + TickStep
    /\ UNCHANGED <<jobs, ret, calls, call, sweep, row0, tray, threads, ui, scratch, out, textVars, watch>>

Next ==
    \/ \E k \in JobKeys, a \in UpsertArgs : Upsert(k, a[1], a[2], WORKER_ID, a[3])
    \/ \E p \in StalePairs : MarkStalled(p[1], p[2])
    \/ \E k \in JobKeys : ClearJob(k)
    \/ Tick

Spec == Init /\ [][Next]_vars

----------------------------------------------------------------------------
(* Properties of the job tracker under Spec *)

\* C1: once a stored row's attempts are at or above the effective ceiling
\* (the larger of the requested and the stored max_attempts), an upsert_job
\* asking for QUEUED or RUNNING stores FAILED with the error
\* "Max attempts exceeded (<ceiling>)", leaves attempts as they were, and
\* can_retry is false for the row it leaves (so with max_attempts = 3 the
\* fourth request after three RUNNING upserts is refused).
C1_AttemptCapEnforced ==
    [][\A k \in JobKeys, a \in UpsertArgs :
        LET s == a[1]
            e == a[2]
            c == a[3]
            ceiling == IF c >= jobs[k].max_attempts THEN c ELSE jobs[k].max_attempts
        IN  ( /\ jobs[k].status # "NONE"
              /\ Upper(s) \in {"QUEUED", "RUNNING"}
              /\ jobs[k].attempts >= ceiling
              /\ Upsert(k, s, e, WORKER_ID, c) )
            => /\ jobs'[k].status = "FAILED"
               /\ jobs'[k].last_error = Err("max_attempts", ceiling)
               /\ jobs'[k].attempts = jobs[k].attempts
               /\ ~can_retry(jobs'[k], DEFAULT_MAX_ATTEMPTS)
               /\ ~can_retry(jobs'[k], c)]_vars

\* C1 witness: a row that took three RUNNING upserts under the ceiling 3 and
\* then had a further QUEUED/RUNNING request refused.
C1_Witness ==
    \E k \in JobKeys :
        /\ jobs[k].status = "FAILED"
        /\ jobs[k].attempts = 3
        /\ jobs[k].max_attempts = 3
        /\ jobs[k].last_error = Err("max_attempts", 3)

\* C6: mark_stalled_jobs(rt, qt) sets FAILED, with a reason naming the
\* cause, on exactly the rows that are RUNNING and older than rt, QUEUED and
\* older than qt, or RUNNING/QUEUED with an unparsable updated_at; every
\* other row is unchanged and the count returned is the number of rows
\* changed.
C6_SweepExact ==
    [][\A p \in StalePairs :
        LET rt == p[1]
            qt == p[2]
            Unparsable(k) == jobs[k].updated_at.fmt = "bad"
            Age(k) == now - jobs[k].updated_at.sec * TicksPerSec
            StaleRunning(k) ==
                jobs[k].status = "RUNNING" /\ ~Unparsable(k) /\ Age(k) > rt * TicksPerSec
            StaleQueued(k) ==
                jobs[k].status = "QUEUED" /\ ~Unparsable(k) /\ Age(k) > qt * TicksPerSec
            Invalid(k) == jobs[k].status \in {"RUNNING", "QUEUED"} /\ Unparsable(k)
        IN  MarkStalled(rt, qt) =>
            /\ \A k \in JobKeys :
                /\ StaleRunning(k) =>
                      jobs'[k].status = "FAILED" /\ jobs'[k].last_error = Err("stalled_running", rt)
                /\ StaleQueued(k) =>
                      jobs'[k].status = "FAILED" /\ jobs'[k].last_error = Err("stalled_queued", qt)
                /\ Invalid(k) =>
                      jobs'[k].status = "FAILED" /\ jobs'[k].last_error = Err("invalid_updated_at", 0)
                /\ ~(StaleRunning(k) \/ StaleQueued(k) \/ Invalid(k)) => jobs'[k] = jobs[k]
            /\ ret' = Cardinality({k \in JobKeys : jobs'[k] # jobs[k]})]_vars

\* C6 witness: one sweep failed a stale RUNNING row and left a fresh
\* RUNNING row alone.
C6_Witness ==
    \E k1 \in JobKeys, k2 \in JobKeys :
        /\ jobs[k1].status = "FAILED"
        /\ jobs[k1].last_error.kind = "stalled_running"
        /\ jobs[k1].worker_id = HEALTH_WORKER
        /\ jobs[k2].status = "RUNNING"
        /\ jobs[k2].updated_at.fmt = "Z"
        /\ ret = 1

\* C10: after upsert_job the stored attempts are the prior attempts plus
\* one when RUNNING was asked for and accepted, and the prior attempts in
\* every other case; mark_stalled_jobs never changes attempts.
C10_AttemptsStep ==
    [][ /\ \A k \in JobKeys, a \in UpsertArgs :
            LET s == a[1]
                e == a[2]
                c == a[3]
                exists == jobs[k].status # "NONE"
                prior == IF exists THEN jobs[k].attempts ELSE 0
                ceiling == IF exists /\ jobs[k].max_attempts > c
                           THEN jobs[k].max_attempts ELSE c
                accepted == prior < ceiling
            IN  Upsert(k, s, e, WORKER_ID, c) =>
                jobs'[k].attempts =
                    IF Upper(s) = "RUNNING" /\ accepted THEN prior + 1 ELSE prior
        /\ \A p \in StalePairs :
            MarkStalled(p[1], p[2]) =>
                \A k \in JobKeys : jobs'[k].attempts = jobs[k].attempts ]_vars

\* C10 witness: a row whose attempts were raised by RUNNING upserts and
\* then kept by a sweep that failed it.
C10_Witness ==
    \E k \in JobKeys :
        /\ jobs[k].attempts = 2
        /\ jobs[k].status = "FAILED"
        /\ jobs[k].last_error.kind = "stalled_running"

----------------------------------------------------------------------------
(* The job tracker called from several threads and processes at once.     *)
(* upsert_job is a SELECT followed by an INSERT ... ON CONFLICT, and       *)
(* mark_stalled_jobs a SELECT followed by an UPDATE per selected key; the  *)
(* SELECT opens no transaction (sqlite3 begins one before the first        *)
(* INSERT/UPDATE only), so other writers may commit between the two        *)
(* statements of one call.                                                 *)

\* the identity the concurrent callers write
RaceKey == Key("a.pdf", 1, Fp(10, 1))

\* the row of RaceKey when the concurrent calls start
RaceRows ==
    { NoRow,
      Row("QUEUED", ToIsoZ(0), 0, NoneErr, WORKER_ID, DEFAULT_MAX_ATTEMPTS),
      Row("RUNNING", ToIsoZ(0), 1, NoneErr, WORKER_ID, DEFAULT_MAX_ATTEMPTS) }

\* the calls processes make: a watcher (_process_pdf, _initial_scan) any
\* upsert, the jobs widget (_retry_job) a QUEUED upsert without error text
RaceCalls ==
    {c \in UpsertArgs \X {WORKER_ID, UI_WORKER} :
        c[2] = UI_WORKER => (c[1][1] = "QUEUED" /\ c[1][2] = NoneErr)}

InitRace ==
    /\ jobs \in {j \in [JobKeys -> RaceRows] : \A k \in JobKeys \ {RaceKey} : j[k] = NoRow}
    /\ now = 0
    /\ ret = 0
    /\ calls = 0
    /\ call = [w \in Workers |-> NoCall]
    /\ sweep = NoSweep
    /\ row0 = jobs[RaceKey]
    /\ out = NoOut
    /\ threads = NoThreads
    /\ ui = NoUi
    /\ scratch = NoScratch
    /\ tray = NoTray
    /\ TextIdle

\* upsert_job going on with the status as passed, whatever it is
UpsertRead_AnyStatus(w, status, last_error, worker_id, max_attempts) ==
    /\ call[w].pc = "idle"
    /\ call' = [call EXCEPT ![w] =
                  [pc |-> "read", status |-> status, cap |-> max_attempts,
                   err |-> last_error, wid |-> worker_id, t |-> now,
                   prior |-> jobs[RaceKey]]]
    /\ UNCHANGED <<jobs, now, ret, calls, sweep, row0, tray, threads, ui, scratch, out,
                   textVars, watch>>

\* upsert_job, lines 148-169: the status is normalized, _utcnow() is taken
\* and the row is read; a status outside STATUS_ALLOWED returns at once
UpsertRead(w, status, last_error, worker_id, max_attempts) ==
    /\ call[w].pc = "idle"
    /\ call' = [call EXCEPT ![w] =
                  IF Upper(status) \in STATUS_ALLOWED
                  THEN [pc |-> "read", status |-> Upper(status), cap |-> max_attempts,
                        err |-> last_error, wid |-> worker_id, t |-> now,
                        prior |-> jobs[RaceKey]]
                  ELSE [NoCall EXCEPT !.pc = "done"]]
    /\ UNCHANGED <<jobs, now, ret, calls, sweep, row0, tray, threads, ui, scratch, out, textVars, watch>>

\* upsert_job, lines 170-213: the row computed from the row read is written
UpsertWrite(w) ==
    /\ call[w].pc = "read"
    /\ jobs' = [jobs EXCEPT ![RaceKey] =
                  UpsertRow(call[w].prior, call[w].status, call[w].err,
                            call[w].wid, call[w].cap, call[w].t)]
    /\ call' = [call EXCEPT ![w].pc = "done"]
    /\ UNCHANGED <<now, ret, calls, sweep, row0, tray, threads, ui, scratch, out, textVars, watch>>

\* mark_stalled_jobs, lines 319-342: the cutoffs are taken from _utcnow(),
\* the RUNNING/QUEUED rows are read and the list of updates is built
SweepRead(rt, qt) ==
    /\ sweep.pc = "idle"
    /\ sweep' = [pc |-> "read", updates |-> StalledUpdates(jobs, rt, qt, now), t |-> now]
    /\ UNCHANGED <<jobs, now, ret, calls, call, row0, tray, threads, ui, scratch, out, textVars, watch>>

\* mark_stalled_jobs, lines 343-353: the updates are written by key
SweepWrite ==
    /\ sweep.pc = "read"
    /\ jobs' = ApplyStalled(jobs, sweep.updates, sweep.t, HEALTH_WORKER)
    /\ ret' = UpdateCount(sweep.updates)
    /\ sweep' = [sweep EXCEPT !.pc = "done"]
    /\ UNCHANGED <<now, calls, call, row0, tray, threads, ui, scratch, out, textVars, watch>>

NextRace ==
    \/ \E w \in Workers, c \in RaceCalls :
          UpsertRead(w, c[1][1], c[1][2], c[2], c[1][3])
    \/ \E w \in Workers : UpsertWrite(w)
    \/ \E p \in StalePairs : SweepRead(p[1], p[2])
    \/ SweepWrite
    \/ Tick

SpecRace == InitRace /\ [][NextRace]_vars

----------------------------------------------------------------------------
(* Properties of the job tracker under SpecRace *)

\* C2: the stall sweep never changes a row whose status is DONE at the
\* moment the sweep writes, whatever a live worker's upsert_job calls did
\* between the sweep's read and its write.
C2_SweepSparesDone ==
    [][\A k \in JobKeys :
        (SweepWrite /\ jobs[k].status = "DONE") => jobs'[k] = jobs[k]]_vars

\* C3: once two concurrent upsert_job calls for one identity have both
\* returned (and no sweep ran), the row is the one that executing the two
\* calls one after the other, in one of the two orders, leaves (updated_at
\* aside, which is the caller's clock reading).
C3_UpsertsSerialize ==
    LET Apply(r, c) ==
            IF c.status \in STATUS_ALLOWED
            THEN UpsertRow(r, c.status, c.err, c.wid, c.cap, c.t)
            ELSE r
        Same(r, q) == [r EXCEPT !.updated_at = BadStamp] = [q EXCEPT !.updated_at = BadStamp]
    IN  ( /\ \A w \in Workers : call[w].pc = "done"
          /\ sweep.pc = "idle" )
        => \/ Same(jobs[RaceKey], Apply(Apply(row0, call["w1"]), call["w2"]))
           \/ Same(jobs[RaceKey], Apply(Apply(row0, call["w2"]), call["w1"]))

----------------------------------------------------------------------------
(* The extraction pipeline: get_text_for_pdf called by one process at a   *)
(* time on a file that other programs create, rewrite, touch and delete.  *)

Sizes == {10, 20}
Mtimes == {2, 3, 4}
FileStates ==
    {File(TRUE, s, m, b) : s \in Sizes, m \in Mtimes, b \in Bodies} \cup {NoFile}

InitText ==
    /\ jobs = [k \in JobKeys |-> NoRow]
    /\ now = 0
    /\ ret = 0
    /\ calls = 0
    /\ call = [w \in Workers |-> NoCall]
    /\ sweep = NoSweep
    /\ row0 = NoRow
    /\ out = NoOut
    /\ threads = NoThreads
    /\ ui = NoUi
    /\ scratch = NoScratch
    /\ tray = NoTray
    /\ file \in FileStates
    /\ memo = <<>>
    /\ pcache = EmptyCache
    /\ last = NoLast
    /\ watch = WatchOff

\* get_text_for_pdf(path, max_pages): what a call does to the caches, and
\* the record of the call; when the storage fails get_cached_text returns
\* "" as for a table without rows and upsert_cached_text writes nothing
get_text_for_pdf(path, max_pages, db) ==
    LET key == MemoKey(path, file, max_pages)
        x == Extraction(OnError(db, pcache, EmptyCache), path, file, max_pages)
        stat == <<file.size, file.mtime>>
    IN  IF ~file.exists
        THEN /\ last' = Called(file, max_pages, NoText, "missing", FALSE, FALSE,
                               last.stats)
             /\ UNCHANGED <<memo, pcache>>
        ELSE IF MemoHas(memo, key)
        THEN /\ last' = Called(file, max_pages, MemoGet(memo, key), "memo",
                               FALSE, FALSE, last.stats)
             /\ memo' = MoveToEnd(memo, key)
             /\ UNCHANGED pcache
        ELSE /\ last' = Called(file, max_pages, x.text,
                               IF x.cache_hit THEN "sqlite" ELSE "computed",
                               x.pypdf, x.ocr, last.stats \cup {stat})
             /\ memo' = MemoPut(memo, key, x.text)
             /\ pcache' = IF x.fingerprint # NoFp
                          THEN OnError(db,
                                       upsert_cached_text(pcache, path, file, max_pages,
                                                          x.text, x.fingerprint),
                                       pcache)
                          ELSE pcache

\* a process calls get_text_for_pdf(path, max_pages)
GetText(path, max_pages) ==
    /\ calls < MaxCalls
    /\ calls' = calls + 1
    /\ get_text_for_pdf(path, max_pages, DbOk)
    /\ UNCHANGED <<jobs, now, ret, call, sweep, row0, tray, threads, ui, scratch, out, file, watch>>

\* another program creates, rewrites, touches or deletes the file
WriteFile(f) ==
    /\ f # file
    /\ calls < MaxCalls
    /\ calls' = calls + 1
    /\ file' = f
    /\ UNCHANGED <<jobs, now, ret, call, sweep, row0, tray, threads, ui, scratch, out, memo, pcache, last, watch>>

\* the process exits and a new one starts: _text_cache starts empty
Restart ==
    /\ memo # <<>>
    /\ memo' = <<>>
    /\ UNCHANGED <<jobs, now, ret, calls, call, sweep, row0, tray, threads, ui, scratch, out, file, pcache, last, watch>>

NextText ==
    \/ GetText(PdfPath, 1)
    \/ \E f \in FileStates : WriteFile(f)
    \/ Restart

SpecText == InitText /\ [][NextText]_vars

----------------------------------------------------------------------------
(* Properties of the extraction pipeline under SpecText *)

\* C4: a second get_text_for_pdf for an unchanged file (same path, size,
\* mtime, content and max_pages as the call before) returns the text the
\* first call returned and runs no recognition, whether the memoizer or
\* (after a restart) the persistent cache serves it.
C4_SecondCallIsCacheHit ==
    [][(GetText(PdfPath, 1) /\ last.valid /\ last.pages = 1 /\ last.file = file)
        => (last'.text = last.text /\ ~last'.ocr)]_vars

\* C5: when the file's size or mtime differs from those of every cached
\* extraction, the next get_text_for_pdf is served neither by the memoizer
\* nor by the persistent cache: it runs the extraction again and returns
\* the text of the file as it is now.
C5_ChangeBypassesCache ==
    [][(GetText(PdfPath, 1) /\ file.exists /\ last.stats # {}
            /\ <<file.size, file.mtime>> \notin last.stats)
        => (last'.source = "computed" /\ last'.pypdf
            /\ last'.text = Extraction(EmptyCache, PdfPath, file, 1).text)]_vars

----------------------------------------------------------------------------
(* The watcher (ocr_watch_cache.py) on one PDF, next to the jobs widget   *)
(* of the application (ocr_jobs_widget.py) and to the programs that write *)
(* the file. The watcher takes one step per tracker call it makes; the    *)
(* widget and the file writers run between its steps.                     *)

OCR_STATUS_PAGES == 1
RUNNING_STALE_SECONDS == 300
QUEUED_STALE_SECONDS == 1800
STALL_SWEEP_INTERVAL_SECONDS == 30

\* bound: the clock jumps of a run
WatchJumps == 1

\* time.time() when the run starts: far enough from _stall_last_sweep = 0.0
\* for the first sweep to run
Epoch == STALL_SWEEP_INTERVAL_SECONDS * TicksPerSec
\* a clock jump: long enough for a QUEUED row to go stale
JumpTicks == (QUEUED_STALE_SECONDS + 1) * TicksPerSec

\* the PDFs of the watched folder: one with a text layer, one that yields
\* no text at all
WatchBodies == { Body(Text("typed", 500, 80), NoText), Body(NoText, NoText) }

\* the states of the watched file: there or not, its size and mtime those
\* of the fingerprint of RaceKey
WatchFiles ==
    {File(TRUE, RaceKey.fp.size, RaceKey.fp.mtime * TicksPerSec, b) : b \in WatchBodies}
        \cup {NoFile}

\* the job identity the watcher uses for a fingerprint
WatchKey(fp) == Key(PdfPath, OCR_STATUS_PAGES, fp)

\* the watcher's upsert leaving a row that is already there as it is
WatchUpsert_IgnoresExisting(table, fp, status, last_error, t) ==
    IF table[WatchKey(fp)].status # "NONE" THEN table
    ELSE [table EXCEPT ![WatchKey(fp)] =
            UpsertRow(table[WatchKey(fp)], status, last_error, WORKER_ID,
                      DEFAULT_MAX_ATTEMPTS, t)]

\* upsert_job by the watcher: status, error text, default max_attempts
WatchUpsert(table, fp, status, last_error, t) ==
    [table EXCEPT ![WatchKey(fp)] =
        UpsertRow(table[WatchKey(fp)], status, last_error, WORKER_ID,
                  DEFAULT_MAX_ATTEMPTS, t)]

\* _maybe_mark_stalled: is the sweep due at instant t
SweepDue(swept, t) == ~(t - swept < STALL_SWEEP_INTERVAL_SECONDS * TicksPerSec)

\* _maybe_mark_stalled: the table after it
MaybeSwept(table, swept, t) ==
    IF SweepDue(swept, t)
    THEN ApplyStalled(table,
                      StalledUpdates(table, RUNNING_STALE_SECONDS,
                                     QUEUED_STALE_SECONDS, t),
                      t, HEALTH_WORKER)
    ELSE table

\* the count mark_stalled_jobs returned, when _maybe_mark_stalled called it
MaybeSweptCount(table, swept, t, old) ==
    IF SweepDue(swept, t)
    THEN UpdateCount(StalledUpdates(table, RUNNING_STALE_SECONDS,
                                    QUEUED_STALE_SECONDS, t))
    ELSE old

InitWatch ==
    /\ jobs = [k \in JobKeys |-> NoRow]
    /\ now = Epoch
    /\ ret = 0
    /\ calls = 0
    /\ call = [w \in Workers |-> NoCall]
    /\ sweep = NoSweep
    /\ row0 = NoRow
    /\ out = NoOut
    /\ threads = NoThreads
    /\ ui = NoUi
    /\ scratch = NoScratch
    /\ tray = NoTray
    /\ file \in WatchFiles
    /\ memo = <<>>
    /\ pcache = EmptyCache
    /\ last = NoLast
    /\ watch = WatchOff

\* main: the watcher process starts; its memoizer is empty, seen is empty
WatchStart ==
    /\ watch.pc = "off"
    /\ watch' = [WatchOff EXCEPT !.pc = "scan"]
    /\ memo' = <<>>
    /\ UNCHANGED <<jobs, now, ret, calls, call, sweep, row0, tray, threads, ui, scratch, out, file, pcache, last>>

\* the watcher process is killed
WatchKill ==
    /\ watch.pc # "off"
    /\ calls < MaxCalls
    /\ calls' = calls + 1
    /\ watch' = WatchOff
    /\ memo' = <<>>
    /\ UNCHANGED <<jobs, now, ret, call, sweep, row0, tray, threads, ui, scratch, out, file, pcache, last>>

\* _initial_scan, lines 194-210: the PDF found is queued; without a PDF the
\* scan ends
ScanQueue ==
    /\ watch.pc = "scan"
    /\ IF file.exists
       THEN /\ jobs' = WatchUpsert(jobs, compute_fingerprint(file), "QUEUED", NoneErr, now)
            /\ watch' = [watch EXCEPT !.pc = "queued", !.mode = "scan",
                                      !.fp = compute_fingerprint(file)]
       ELSE /\ jobs' = jobs
            /\ watch' = [watch EXCEPT !.pc = "loop"]
    /\ UNCHANGED <<now, ret, calls, call, sweep, row0, tray, threads, ui, scratch, out, textVars>>

\* _poll_loop, lines 226-240, and Handler.on_any_event, lines 257-279: a
\* PDF that is not (seen with this fingerprint and cached) is queued
LoopQueue ==
    LET fp == compute_fingerprint(file)
    IN  /\ watch.pc = "loop"
        /\ file.exists
        /\ ~(watch.seen = fp /\ fp # NoFp /\ is_cached(pcache, PdfPath, file, 1, fp))
        /\ jobs' = WatchUpsert(jobs, fp, "QUEUED", NoneErr, now)
        /\ watch' = [watch EXCEPT !.pc = "queued", !.mode = "loop", !.fp = fp]
        /\ UNCHANGED <<now, ret, calls, call, sweep, row0, tray, threads, ui, scratch, out, textVars>>

\* the end of a file's handling: seen[path] = fp, and in the loop (not in
\* the initial scan) _maybe_mark_stalled
Handled(table) ==
    /\ jobs' = IF watch.mode = "loop" THEN MaybeSwept(table, watch.swept, now) ELSE table
    /\ ret' = IF watch.mode = "loop"
              THEN MaybeSweptCount(table, watch.swept, now, ret) ELSE ret
    /\ watch' = [watch EXCEPT !.pc = "loop", !.seen = watch.fp,
                              !.swept = IF watch.mode = "loop" /\ SweepDue(watch.swept, now)
                                        THEN now ELSE watch.swept]

\* _process_pdf, lines 101-160: the retry check, the cache check and the
\* RUNNING upsert
ProcessStart ==
    LET fp == watch.fp
        existing == jobs[WatchKey(fp)]
    IN  /\ watch.pc = "queued"
        /\ IF existing.status # "NONE" /\ ~can_retry(existing, DEFAULT_MAX_ATTEMPTS)
           THEN Handled(WatchUpsert(jobs, fp, "FAILED",
                                    MaxAttemptsErr(DEFAULT_MAX_ATTEMPTS), now))
           ELSE IF fp # NoFp /\ is_cached(pcache, PdfPath, file, 1, fp)
           THEN Handled(WatchUpsert(jobs, fp, "DONE", NoneErr, now))
           ELSE /\ jobs' = WatchUpsert(jobs, fp, "RUNNING", NoneErr, now)
                /\ watch' = [watch EXCEPT !.pc = "running"]
                /\ ret' = ret
        /\ UNCHANGED <<now, calls, call, sweep, row0, tray, threads, ui, scratch, out, textVars>>

\* _process_pdf, lines 161-176: get_text_for_pdf returns, the job is DONE
ExtractDone ==
    /\ watch.pc = "running"
    /\ get_text_for_pdf(PdfPath, 1, DbOk)
    /\ Handled(WatchUpsert(jobs, watch.fp, "DONE", NoneErr, now))
    /\ UNCHANGED <<now, calls, call, sweep, row0, tray, threads, ui, scratch, out, file>>

\* _process_pdf, lines 177-190: get_text_for_pdf raises, the job is FAILED
\* with the error text
ExtractRaise ==
    /\ watch.pc = "running"
    /\ Handled(WatchUpsert(jobs, watch.fp, "FAILED", CallerErr, now))
    /\ UNCHANGED <<now, calls, call, sweep, row0, tray, threads, ui, scratch, out, textVars>>

\* _maybe_mark_stalled from the loops: the end of a poll cycle that queued
\* nothing, and the watchdog main thread
MaybeMarkStalled ==
    /\ watch.pc # "off"
    /\ jobs' = MaybeSwept(jobs, watch.swept, now)
    /\ ret' = MaybeSweptCount(jobs, watch.swept, now, ret)
    /\ watch' = [watch EXCEPT !.swept = IF SweepDue(watch.swept, now)
                                        THEN now ELSE watch.swept]
    /\ UNCHANGED <<now, calls, call, sweep, row0, tray, threads, ui, scratch, out, textVars>>

\* OcrJobsWidget._retry_job on the row of k: refused when can_retry is
\* false, else a QUEUED upsert with the row's max_attempts
UiRetry(k) ==
    LET job == jobs[k]
        cap == IF job.max_attempts # 0 THEN job.max_attempts ELSE DEFAULT_MAX_ATTEMPTS
    IN  /\ job.status # "NONE"
        /\ can_retry(job, cap)
        /\ Upsert(k, "QUEUED", NoneErr, UI_WORKER, cap)

\* the wall clock jumps
Jump ==
    /\ now < Epoch + WatchJumps * JumpTicks
    /\ now' = now + JumpTicks
    /\ UNCHANGED <<jobs, ret, calls, call, sweep, row0, tray, threads, ui, scratch, out, textVars, watch>>

NextWatch ==
    \/ WatchStart
    \/ WatchKill
    \/ ScanQueue
    \/ LoopQueue
    \/ ProcessStart
    \/ ExtractDone
    \/ ExtractRaise
    \/ MaybeMarkStalled
    \/ \E k \in JobKeys : UiRetry(k)
    \/ MarkStalled(RUNNING_STALE_SECONDS, QUEUED_STALE_SECONDS)
    \/ \E f \in WatchFiles : WriteFile(f)
    \/ Jump

SpecWatch == InitWatch /\ [][NextWatch]_vars

----------------------------------------------------------------------------
(* Properties of the watcher and the widget under SpecWatch *)

\* C8: every change of the status of an existing row is QUEUED to RUNNING,
\* RUNNING to DONE, RUNNING to FAILED, QUEUED to FAILED by the stall sweep,
\* or FAILED to QUEUED by the widget's retry on a row for which can_retry
\* holds.
C8_OnlyListedTransitions ==
    [][\A k \in JobKeys :
        LET a == jobs[k].status
            b == jobs'[k].status
        IN  (a # "NONE" /\ b # "NONE" /\ a # b) =>
            \/ a = "QUEUED" /\ b = "RUNNING"
            \/ a = "RUNNING" /\ b \in {"DONE", "FAILED"}
            \/ a = "QUEUED" /\ b = "FAILED" /\ jobs'[k].worker_id = HEALTH_WORKER
            \/ /\ a = "FAILED" /\ b = "QUEUED"
               /\ jobs'[k].worker_id = UI_WORKER
               /\ can_retry(jobs[k], DEFAULT_MAX_ATTEMPTS)]_vars

\* C9: the status of a DONE or FAILED row changes only by the widget's
\* retry, which makes it QUEUED; no step of the watcher changes it.
C9_TerminalUntilRetry ==
    [][\A k \in JobKeys :
        (jobs[k].status \in {"DONE", "FAILED"} /\ jobs'[k].status # "NONE"
            /\ jobs'[k].status # jobs[k].status)
        => (jobs'[k].status = "QUEUED" /\ jobs'[k].worker_id = UI_WORKER)]_vars

----------------------------------------------------------------------------
(* Stall recovery: the watcher is killed while it handles a file, the     *)
(* file is removed, and the tray application starts a watcher again       *)
(* whose loop sweeps. The loop runs _maybe_mark_stalled each second       *)
(* (watchdog mode) or each poll cycle, the clock advances, and a stopped  *)
(* watcher is started again: weak fairness on each.                       *)

\* the last instant from which the clock of a run can still advance by a
\* whole jump
LiveDeadline == Epoch + (WatchJumps - 1) * JumpTicks

NextLive ==
    \/ WatchStart
    \/ WatchKill
    \/ ScanQueue
    \/ LoopQueue
    \/ ProcessStart
    \/ ExtractDone
    \/ ExtractRaise
    \/ MaybeMarkStalled
    \/ \E k \in JobKeys : jobs[k].status = "FAILED" /\ UiRetry(k)
    \/ WriteFile(NoFile)
    \/ Jump

SpecLive ==
    /\ InitWatch
    /\ [][NextLive]_vars
    /\ WF_vars(MaybeMarkStalled)
    /\ WF_vars(Jump)
    /\ WF_vars(WatchStart)

\* C7: a RUNNING or QUEUED row that nothing updates any more (its file is
\* gone and no watcher is handling it, the watcher that wrote it having
\* been killed or having moved on) is eventually FAILED by the periodic
\* sweep; and a later request for a FAILED row whose attempts are below
\* its max_attempts is accepted: the widget's retry makes the row QUEUED
\* with its attempts kept, and upsert_job stores QUEUED or RUNNING as asked
\* for whatever max_attempts the caller passes.
C7_StallRecovery ==
    /\ \A k \in JobKeys :
          ( /\ jobs[k].status \in {"RUNNING", "QUEUED"}
            /\ ~file.exists
            /\ watch.pc \notin {"queued", "running"}
            /\ now <= LiveDeadline )
          ~> (jobs[k].status = "FAILED")
    /\ [][\A k \in JobKeys :
            ( /\ jobs[k].status = "FAILED"
              /\ jobs[k].attempts < jobs[k].max_attempts
              /\ UiRetry(k) )
            => ( /\ jobs'[k].status = "QUEUED"
                 /\ jobs'[k].attempts = jobs[k].attempts )]_vars
    /\ [](\A k \in JobKeys, st \in {"QUEUED", "RUNNING"}, c \in CapInputs :
            (jobs[k].status = "FAILED" /\ jobs[k].attempts < jobs[k].max_attempts)
            => UpsertRow(jobs[k], st, NoneErr, WORKER_ID, c, now).status = st)

\* C7 witness: the watcher was killed while its row was RUNNING (the
\* running watcher is idle in its loop and never finished that row), the
\* sweep failed the row, and the retry of the row was accepted.
C7_Witness ==
    \E k \in JobKeys :
        /\ calls > 0
        /\ ~file.exists
        /\ watch.pc = "loop"
        /\ jobs[k].status = "QUEUED"
        /\ jobs[k].worker_id = UI_WORKER
        /\ jobs[k].last_error.kind = "stalled_running"
        /\ jobs[k].attempts < jobs[k].max_attempts

----------------------------------------------------------------------------
(* The job tracker read and pruned: get_job, can_retry and                 *)
(* prune_terminal_jobs next to upsert_job, called from one thread on a     *)
(* table that may hold rows written by earlier releases, for a file that   *)
(* other programs rewrite and delete (SpecStore), and as time passes       *)
(* (SpecPrune).                                                            *)

\* stored updated_at texts in the order SQLite compares TEXT (bytewise):
\* "" before everything, and of two texts for the same second the one
\* ending in "+00:00" before the one ending in "Z"
TextLess(a, b) ==
    IF a.fmt = "bad" THEN b.fmt # "bad"
    ELSE IF b.fmt = "bad" THEN FALSE
    ELSE \/ a.sec < b.sec
         \/ a.sec = b.sec /\ a.fmt = "legacy" /\ b.fmt = "Z"

\* _effective_fingerprint: the fingerprint passed, else the one of the file
\* as it is now, None (NoFp) when stat fails
effective_fingerprint(f, fingerprint) ==
    IF fingerprint # NoFp THEN fingerprint ELSE compute_fingerprint(f)

\* SELECT ... WHERE job_key = ?
RowAt(table, k) == IF k \in JobKeys THEN table[k] ELSE NoRow

\* get_job: the (identity, row) pairs it may return, <<NoKey, NoRow>> for
\* None; ORDER BY updated_at DESC LIMIT 1 returns any one of the rows that
\* share the greatest updated_at text
get_job(table, path, max_pages, f, fingerprint) ==
    LET eff == effective_fingerprint(f, fingerprint)
        exact == Key(path, max_pages, eff)
        rows == {k \in JobKeys :
                    k.path = path /\ k.pages = max_pages /\ table[k].status # "NONE"}
        newest == {k \in rows :
                    \A k2 \in rows : ~TextLess(table[k].updated_at, table[k2].updated_at)}
    IN  IF eff # NoFp
        THEN IF RowAt(table, exact).status # "NONE"
             THEN {<<exact, table[exact]>>}
             ELSE {<<NoKey, NoRow>>}
        ELSE IF rows = {} THEN {<<NoKey, NoRow>>}
        ELSE {<<k, table[k]>> : k \in newest}

\* prune_terminal_jobs, lines 378-390: the rows the first DELETE removes,
\* updated_at compared as text with the cutoff in the canonical encoding
PrunedFast(table, older_than_seconds, t) ==
    {k \in JobKeys :
        /\ table[k].status \in {"DONE", "FAILED"}
        /\ TextLess(table[k].updated_at, ToIsoZ(t - older_than_seconds * TicksPerSec))}

\* prune_terminal_jobs, lines 391-407: of the rows left, those not ending
\* in "Z" whose parsed instant is before the cutoff
PrunedFallback(table, older_than_seconds, t) ==
    {k \in JobKeys \ PrunedFast(table, older_than_seconds, t) :
        /\ table[k].status \in {"DONE", "FAILED"}
        /\ table[k].updated_at.fmt # "Z"
        /\ ParseDt(table[k].updated_at) # -1
        /\ ParseDt(table[k].updated_at) < t - older_than_seconds * TicksPerSec}

\* DELETE FROM ocr_jobs WHERE job_key in ks
Without(table, ks) == [k \in JobKeys |-> IF k \in ks THEN NoRow ELSE table[k]]

\* what callers pass
FpInputs == {NoFp} \cup {k.fp : k \in JobKeys}
PruneAges == {0, 1}
LOW_CAP_WORKER == "worker run with max_attempts=2"
\* the watcher uses the default ceiling, another worker a lower one
StoreCallers == {<<WORKER_ID, DEFAULT_MAX_ATTEMPTS>>, <<LOW_CAP_WORKER, 2>>}
StoreStatuses == {"RUNNING", "DONE"}

\* rows a table on disk may hold when the process starts: written by an
\* earlier release ("...+00:00") or damaged (updated_at "")
OldRows ==
    { NoRow,
      Row("DONE", Stamp("legacy", 0), 1, NoneErr, WORKER_ID, DEFAULT_MAX_ATTEMPTS),
      Row("FAILED", Stamp("legacy", 1), 1, CallerErr, WORKER_ID, DEFAULT_MAX_ATTEMPTS),
      Row("DONE", BadStamp, 1, NoneErr, WORKER_ID, DEFAULT_MAX_ATTEMPTS) }

\* at most one identity has a row when the process starts
OldTables ==
    {j \in [JobKeys -> OldRows] :
        \E k \in JobKeys : \A k2 \in JobKeys \ {k} : j[k2] = NoRow}

\* the file of the identities of JobKeys: one content, two sizes
StoreFiles ==
    {File(TRUE, k.fp.size, k.fp.mtime * TicksPerSec, Body(Text("typed", 500, 80), NoText)) :
        k \in JobKeys} \cup {NoFile}

InitStore ==
    /\ jobs \in OldTables
    /\ now = 0
    /\ ret = 0
    /\ calls = 0
    /\ call = [w \in Workers |-> NoCall]
    /\ sweep = NoSweep
    /\ row0 = NoRow
    /\ out = NoOut
    /\ threads = NoThreads
    /\ ui = NoUi
    /\ scratch = NoScratch
    /\ tray = NoTray
    /\ file \in StoreFiles
    /\ memo = <<>>
    /\ pcache = EmptyCache
    /\ last = NoLast
    /\ watch = WatchOff

\* get_job(path, max_pages, fingerprint)
GetJob(path, max_pages, fingerprint, db) ==
    /\ calls < MaxCalls
    /\ calls' = calls + 1
    /\ \E r \in OnError(db, get_job(jobs, path, max_pages, file, fingerprint),
                         {<<NoKey, NoRow>>}) :
          out' = Out("get_job", r[1], r[2], NoText, FALSE)
    /\ UNCHANGED <<jobs, now, ret, call, sweep, row0, tray, threads, ui, scratch, textVars, watch>>

\* can_retry(job, max_attempts) on a row read from the table
CanRetry(k, max_attempts) ==
    /\ jobs[k].status # "NONE"
    /\ calls < MaxCalls
    /\ calls' = calls + 1
    /\ out' = Out("can_retry", k, jobs[k], NoText, can_retry(jobs[k], max_attempts))
    /\ UNCHANGED <<jobs, now, ret, call, sweep, row0, tray, threads, ui, scratch, textVars, watch>>

\* prune_terminal_jobs(older_than_seconds)
Prune(older_than_seconds, db) ==
    LET fast == PrunedFast(jobs, older_than_seconds, now)
        fallback == PrunedFallback(jobs, older_than_seconds, now)
    IN  /\ calls < MaxCalls
        /\ calls' = calls + 1
        /\ jobs' = OnError(db, Without(jobs, fast \cup fallback),
                           IF db = DbLateError THEN Without(jobs, fast) ELSE jobs)
        /\ ret' = OnError(db, Cardinality(fast) + Cardinality(fallback), 0)
        /\ UNCHANGED <<now, call, sweep, row0, tray, threads, ui, scratch, out, textVars, watch>>

NextStore ==
    \/ \E k \in JobKeys, s \in StoreStatuses, c \in StoreCallers :
          Upsert(k, s, NoneErr, c[1], c[2])
    \/ \E fp \in FpInputs : GetJob(PdfPath, 1, fp, DbOk)
    \/ \E k \in JobKeys, c \in CapInputs : CanRetry(k, c)
    \/ \E f \in StoreFiles : WriteFile(f)

SpecStore == InitStore /\ [][NextStore]_vars

\* pruning as time passes: the watcher's upserts, prune_terminal_jobs and
\* the clock
InitPrune == InitStore /\ file = NoFile

NextPrune ==
    \/ \E k \in JobKeys, s \in StoreStatuses :
          Upsert(k, s, NoneErr, WORKER_ID, DEFAULT_MAX_ATTEMPTS)
    \/ \E a \in PruneAges : Prune(a, DbOk)
    \/ Tick

SpecPrune == InitPrune /\ [][NextPrune]_vars

----------------------------------------------------------------------------
(* Properties of the job tracker under SpecStore *)

\* C11: the max_attempts ceiling is sticky: an upsert_job on an existing
\* identity stores the larger of the requested and the stored max_attempts,
\* also when it asks for fewer, and no call made in sequence (upsert, read,
\* file change) lowers the stored max_attempts of a row it keeps.
C11_CeilingSticky ==
    [][ /\ \A k \in JobKeys, s \in StoreStatuses, c \in StoreCallers :
            (jobs[k].status # "NONE" /\ Upsert(k, s, NoneErr, c[1], c[2]))
            => /\ jobs'[k].max_attempts = Max(c[2], jobs[k].max_attempts)
               /\ jobs'[k].max_attempts >= jobs[k].max_attempts
        /\ \A k \in JobKeys :
            (jobs[k].status # "NONE" /\ jobs'[k].status # "NONE")
            => jobs'[k].max_attempts >= jobs[k].max_attempts ]_vars

\* C11 witness: a row last written by the worker that asks for the ceiling
\* 2, still holding the ceiling 3 it had before.
C11_Witness ==
    \E k \in JobKeys :
        /\ jobs[k].worker_id = LOW_CAP_WORKER
        /\ jobs[k].updated_at.fmt = "Z"
        /\ jobs[k].max_attempts = DEFAULT_MAX_ATTEMPTS

\* C12: can_retry(job, max_attempts) is true exactly when job.attempts is
\* below the effective ceiling, the larger of the job's stored max_attempts
\* and the max_attempts passed.
C12_CanRetryUsesLargerCeiling ==
    [][\A k \in JobKeys, c \in CapInputs :
        CanRetry(k, c)
        => out'.flag = (jobs[k].attempts < Max(jobs[k].max_attempts, c))]_vars

\* C13: get_job(path, max_pages, fingerprint) returns the row of exactly
\* that identity when a fingerprint is passed (None when it has no row);
\* without a fingerprint it returns a most recently updated row of the path
\* and max_pages, whatever the file is now: there, changed since the job was
\* queued, or gone.
C13_GetJobLookup ==
    [][\A fp \in FpInputs :
        GetJob(PdfPath, 1, fp, DbOk)
        => IF fp # NoFp
           THEN /\ out'.row = jobs[Key(PdfPath, 1, fp)]
                /\ out'.row # NoRow => out'.key = Key(PdfPath, 1, fp)
           ELSE LET rows == {k \in JobKeys : jobs[k].status # "NONE"}
                IN  IF rows = {} THEN out'.row = NoRow
                    ELSE /\ out'.key \in rows
                         /\ out'.row = jobs[out'.key]
                         /\ \A k \in rows :
                              ParseDt(jobs[k].updated_at) <= ParseDt(out'.row.updated_at)]_vars

----------------------------------------------------------------------------
(* Properties of pruning under SpecPrune *)

\* C14: prune_terminal_jobs(older_than) deletes exactly the rows that are
\* DONE or FAILED and whose updated_at, in the canonical or the legacy
\* encoding, is an instant before now minus older_than; every other row
\* (QUEUED, RUNNING, terminal at or after the cutoff) stays as it is, and
\* the count returned is the number of rows deleted.
C14_PruneExact ==
    [][\A a \in PruneAges :
        LET cutoff == now - a * TicksPerSec
            Old(k) ==
                /\ jobs[k].status \in {"DONE", "FAILED"}
                /\ jobs[k].updated_at.fmt \in {"Z", "legacy"}
                /\ jobs[k].updated_at.sec * TicksPerSec < cutoff
        IN  Prune(a, DbOk)
            => /\ \A k \in JobKeys :
                    jobs'[k] = IF Old(k) THEN NoRow ELSE jobs[k]
               /\ ret' = Cardinality({k \in JobKeys : Old(k)})]_vars

----------------------------------------------------------------------------
(* The persistent text cache called directly: get_cached_text,             *)
(* upsert_cached_text, delete_cached_text and has_cache_row for the file   *)
(* a.pdf, which other programs rewrite and delete, next to the rows of a   *)
(* second path.                                                            *)

OtherPath == "b.pdf"
CachePages == {1, 2}

\* texts callers store: none, a page of text, more than the stored limit
CacheTexts ==
    { NoText, Text("invoice", 500, 80),
      Text("typed book", STORED_TEXT_CHARS + 1, 30000) }

\* the file a path names: a.pdf is the file of the model, b.pdf is gone
FileOf(path) == IF path = PdfPath THEN file ELSE NoFile

\* the rows of a path and page limit under any fingerprint
RowsOf(cache, path, max_pages) ==
    {k \in DOMAIN cache :
        k.path = path /\ k.pages = max_pages /\ k.version = OCR_ENGINE_VERSION}

\* delete_cached_text: the table after the DELETE
delete_cached_text(cache, path, f, max_pages, fingerprint) ==
    LET eff == IF fingerprint # NoFp THEN fingerprint ELSE compute_fingerprint(f)
        gone == IF eff # NoFp
                THEN {CacheKey(path, eff, max_pages)}
                ELSE RowsOf(cache, path, max_pages)
    IN  [k \in DOMAIN cache \ gone |-> cache[k]]

\* has_cache_row: the exact row when a fingerprint is passed, else (and
\* when that row is not there) any row of the path and page limit
has_cache_row(cache, path, max_pages, fingerprint) ==
    \/ fingerprint # NoFp /\ CacheKey(path, fingerprint, max_pages) \in DOMAIN cache
    \/ RowsOf(cache, path, max_pages) # {}

\* the cache when the process starts: empty, or holding a row of b.pdf
OldCaches ==
    { EmptyCache,
      CacheKey(OtherPath, Fp(10, 1), 1) :> Text("other", 300, 40) }

InitCache ==
    /\ jobs = [k \in JobKeys |-> NoRow]
    /\ now = 0
    /\ ret = 0
    /\ calls = 0
    /\ call = [w \in Workers |-> NoCall]
    /\ sweep = NoSweep
    /\ row0 = NoRow
    /\ out = NoOut
    /\ threads = NoThreads
    /\ ui = NoUi
    /\ scratch = NoScratch
    /\ tray = NoTray
    /\ file \in StoreFiles
    /\ memo = <<>>
    /\ pcache \in OldCaches
    /\ last = NoLast
    /\ watch = WatchOff

\* get_cached_text(path, max_pages, fingerprint)
GetCachedText(path, max_pages, fingerprint, db) ==
    /\ out' = Out("get_cached_text", NoKey, NoRow,
                  OnError(db,
                          get_cached_text(pcache, path, FileOf(path), max_pages,
                                          fingerprint),
                          NoText),
                  FALSE)
    /\ UNCHANGED <<jobs, now, ret, calls, call, sweep, row0, tray, threads, ui, scratch, textVars, watch>>

\* upsert_cached_text(path, max_pages, text, fingerprint)
PutCachedText(path, max_pages, text, fingerprint, db) ==
    /\ calls < MaxCalls
    /\ calls' = calls + 1
    /\ pcache' = OnError(db,
                         upsert_cached_text(pcache, path, FileOf(path), max_pages,
                                            text, fingerprint),
                         pcache)
    /\ UNCHANGED <<jobs, now, ret, call, sweep, row0, tray, threads, ui, scratch, out, file, memo, last, watch>>

\* delete_cached_text(path, max_pages, fingerprint)
DeleteCachedText(path, max_pages, fingerprint, db) ==
    /\ calls < MaxCalls
    /\ calls' = calls + 1
    /\ pcache' = OnError(db,
                         delete_cached_text(pcache, path, FileOf(path), max_pages,
                                            fingerprint),
                         pcache)
    /\ UNCHANGED <<jobs, now, ret, call, sweep, row0, tray, threads, ui, scratch, out, file, memo, last, watch>>

\* has_cache_row(path, max_pages, fingerprint)
HasCacheRow(path, max_pages, fingerprint, db) ==
    /\ out' = Out("has_cache_row", NoKey, NoRow, NoText,
                  OnError(db, has_cache_row(pcache, path, max_pages, fingerprint),
                          FALSE))
    /\ UNCHANGED <<jobs, now, ret, calls, call, sweep, row0, tray, threads, ui, scratch, textVars, watch>>

NextCache ==
    \/ \E p \in CachePages, fp \in FpInputs : GetCachedText(PdfPath, p, fp, DbOk)
    \/ \E p \in CachePages, t \in CacheTexts, fp \in FpInputs :
          PutCachedText(PdfPath, p, t, fp, DbOk)
    \/ \E p \in CachePages, fp \in FpInputs : DeleteCachedText(PdfPath, p, fp, DbOk)
    \/ \E p \in CachePages, fp \in FpInputs : HasCacheRow(PdfPath, p, fp, DbOk)
    \/ \E f \in StoreFiles : WriteFile(f)

SpecCache == InitCache /\ [][NextCache]_vars

----------------------------------------------------------------------------
(* Properties of the persistent text cache under SpecCache *)

\* C15: an empty fingerprint bypasses the cache whatever the file is
\* (stat-able or not): get_cached_text called with an empty fingerprint
\* returns the empty string, and upsert_cached_text called with an empty
\* fingerprint leaves the table as it is.
C15_EmptyFingerprintBypasses ==
    [][\A p \in CachePages :
        /\ GetCachedText(PdfPath, p, NoFp, DbOk) => out'.text = NoText
        /\ \A t \in CacheTexts :
              PutCachedText(PdfPath, p, t, NoFp, DbOk) => pcache' = pcache]_vars

\* C16: upsert_cached_text(path, p, text, fp) with a non-empty fp leaves
\* one row for (path, fp, p, engine version) holding the first 200,000
\* characters of text, in place of any earlier row of the identity; the
\* rows of other identities are unchanged, and get_cached_text(path, p, fp)
\* returns the stored text.
C16_UpsertThenGet ==
    [][\A p \in CachePages, fp \in FpInputs \ {NoFp} :
        LET key == CacheKey(PdfPath, fp, p)
        IN  /\ \A t \in CacheTexts :
                  PutCachedText(PdfPath, p, t, fp, DbOk)
                  => /\ DOMAIN pcache' = DOMAIN pcache \cup {key}
                     /\ pcache'[key].id = t.id
                     /\ pcache'[key].chars =
                            IF t.chars > 200000 THEN 200000 ELSE t.chars
                     /\ \A k \in DOMAIN pcache \ {key} : pcache'[k] = pcache[k]
                     /\ get_cached_text(pcache', PdfPath, file', p, fp) = pcache'[key]
            /\ (GetCachedText(PdfPath, p, fp, DbOk) /\ key \in DOMAIN pcache)
                  => out'.text = pcache[key]]_vars

\* C16 witness: a text longer than the limit is stored cut to 200,000
\* characters next to a row of another identity of the same path, and
\* get_cached_text has returned the cut text.
C16_Witness ==
    \E k \in DOMAIN pcache, k2 \in DOMAIN pcache :
        /\ k.path = PdfPath /\ k2.path = PdfPath /\ k2 # k
        /\ pcache[k].id = "typed book"
        /\ pcache[k].chars = 200000
        /\ pcache[k2].id = "invoice"
        /\ out.op = "get_cached_text"
        /\ out.text = pcache[k]

\* C17: delete_cached_text(path, p, fp) removes the row of exactly that
\* identity when a fingerprint is passed, and every row of the path and
\* page limit, under whatever fingerprint, when none is passed (also for a
\* file that is still there); no other row is removed or changed.
C17_DeleteScope ==
    [][\A p \in CachePages, fp \in FpInputs :
        LET gone == IF fp # NoFp
                    THEN {CacheKey(PdfPath, fp, p)}
                    ELSE {k \in DOMAIN pcache : k.path = PdfPath /\ k.pages = p}
        IN  DeleteCachedText(PdfPath, p, fp, DbOk)
            => /\ DOMAIN pcache' = DOMAIN pcache \ gone
               /\ \A k \in DOMAIN pcache' : pcache'[k] = pcache[k]]_vars

\* C18: has_cache_row tells "never attempted" from "attempted, text empty":
\* it is true for an identity whose stored text is empty; with a
\* fingerprint passed it is true only when a row of exactly that path, page
\* limit and fingerprint exists, and without one when a row of the path and
\* page limit exists under any fingerprint.
C18_HasRowExact ==
    [][\A p \in CachePages, fp \in FpInputs :
        HasCacheRow(PdfPath, p, fp, DbOk)
        => out'.flag =
              IF fp # NoFp
              THEN CacheKey(PdfPath, fp, p) \in DOMAIN pcache
              ELSE \E k \in DOMAIN pcache : k.path = PdfPath /\ k.pages = p]_vars

----------------------------------------------------------------------------
(* A storage outage: the tables hold what earlier runs wrote, and every    *)
(* call into the two stores now fails, at the connection or at a later     *)
(* statement. Each function catches the exception and returns.             *)

DbErrors == {DbConnectError, DbLateError}

\* the cache before the outage: a text stored for one version of a.pdf
FullCaches ==
    {CacheKey(PdfPath, k.fp, 1) :> Text("invoice", 500, 80) : k \in JobKeys}

InitFail ==
    /\ jobs \in OldTables \cup StoredTables
    /\ now = 0
    /\ ret = 0
    /\ calls = 0
    /\ call = [w \in Workers |-> NoCall]
    /\ sweep = NoSweep
    /\ row0 = NoRow
    /\ out = NoOut
    /\ threads = NoThreads
    /\ ui = NoUi
    /\ scratch = NoScratch
    /\ tray = NoTray
    /\ file \in StoreFiles
    /\ memo = <<>>
    /\ pcache \in FullCaches
    /\ last = NoLast
    /\ watch = WatchOff

\* mark_stalled_jobs(running_stale_seconds, queued_stale_seconds) on a
\* storage that may fail: a failed call rolls back and returns 0
MarkStalledJobs(rt, qt, db) ==
    LET updates == StalledUpdates(jobs, rt, qt, now)
    IN  /\ calls < MaxCalls
        /\ calls' = calls + 1
        /\ jobs' = OnError(db, ApplyStalled(jobs, updates, now, HEALTH_WORKER), jobs)
        /\ ret' = OnError(db, UpdateCount(updates), 0)
        /\ UNCHANGED <<now, call, sweep, row0, tray, threads, ui, scratch, out, textVars, watch>>

\* clear_all_jobs()
ClearAllJobs(db) ==
    /\ calls < MaxCalls
    /\ calls' = calls + 1
    /\ jobs' = OnError(db, [k \in JobKeys |-> NoRow], jobs)
    /\ ret' = OnError(db, Cardinality({k \in JobKeys : jobs[k].status # "NONE"}), 0)
    /\ UNCHANGED <<now, call, sweep, row0, tray, threads, ui, scratch, out, textVars, watch>>

\* get_text_for_pdf(path, max_pages) on a cache storage that may fail
GetTextDb(path, max_pages, db) ==
    /\ calls < MaxCalls
    /\ calls' = calls + 1
    /\ get_text_for_pdf(path, max_pages, db)
    /\ UNCHANGED <<jobs, now, ret, call, sweep, row0, tray, threads, ui, scratch, out, file, watch>>

NextFail ==
    \E db \in DbErrors :
        \/ \E fp \in FpInputs : GetCachedText(PdfPath, 1, fp, db)
        \/ \E fp \in FpInputs : HasCacheRow(PdfPath, 1, fp, db)
        \/ \E t \in CacheTexts, fp \in FpInputs : PutCachedText(PdfPath, 1, t, fp, db)
        \/ \E fp \in FpInputs : DeleteCachedText(PdfPath, 1, fp, db)
        \/ \E fp \in FpInputs : GetJob(PdfPath, 1, fp, db)
        \/ \E p \in StalePairs : MarkStalledJobs(p[1], p[2], db)
        \/ \E a \in PruneAges : Prune(a, db)
        \/ ClearAllJobs(db)
        \/ GetTextDb(PdfPath, 1, db)

SpecFail == InitFail /\ [][NextFail]_vars

----------------------------------------------------------------------------
(* Properties of the stores under SpecFail *)

\* C19: when the storage fails, every call returns its empty result and
\* raises nothing: get_cached_text returns "", has_cache_row false,
\* upsert_cached_text and delete_cached_text change nothing, get_job
\* returns None, mark_stalled_jobs, prune_terminal_jobs and clear_all_jobs
\* return 0 (the first and the last changing nothing), and
\* get_text_for_pdf completes and returns the text it extracted from the
\* file (or memoized from an earlier extraction), the cache left as it was.
C19_StorageFailureDegrades ==
    [][\A db \in DbErrors :
        /\ \A fp \in FpInputs :
            /\ GetCachedText(PdfPath, 1, fp, db) => out'.text = NoText
            /\ HasCacheRow(PdfPath, 1, fp, db) => out'.flag = FALSE
            /\ \A t \in CacheTexts :
                  PutCachedText(PdfPath, 1, t, fp, db) => pcache' = pcache
            /\ DeleteCachedText(PdfPath, 1, fp, db) => pcache' = pcache
            /\ GetJob(PdfPath, 1, fp, db) => out'.row = NoRow
        /\ \A p \in StalePairs :
              MarkStalledJobs(p[1], p[2], db) => (ret' = 0 /\ jobs' = jobs)
        /\ \A a \in PruneAges : Prune(a, db) => ret' = 0
        /\ ClearAllJobs(db) => (ret' = 0 /\ jobs' = jobs)
        /\ GetTextDb(PdfPath, 1, db)
              => /\ last'.valid
                 /\ pcache' = pcache
                 /\ last'.text =
                       IF ~file.exists THEN NoText
                       ELSE IF MemoHas(memo, MemoKey(PdfPath, file, 1))
                            THEN MemoGet(memo, MemoKey(PdfPath, file, 1))
                       ELSE Extraction(EmptyCache, PdfPath, file, 1).text]_vars

\* C19 witness: during the outage get_text_for_pdf returned the text of the
\* file's text layer although the table holds another text for the file's
\* fingerprint, and the table still holds it.
C19_Witness ==
    LET key == CacheKey(PdfPath, compute_fingerprint(file), 1)
    IN  /\ file.exists
        /\ key \in DOMAIN pcache
        /\ pcache[key].id = "invoice"
        /\ last.valid
        /\ last.file = file
        /\ last.source = "computed"
        /\ last.text = file.body.layer
        /\ last.text.id = "typed"


\* ---------------------------------------------------------------------
\* Properties of get_text_for_pdf on a file without identity
\* ---------------------------------------------------------------------

\* C20: when the stat of the file fails (compute_fingerprint gives the
\* empty fingerprint) a call of get_text_for_pdf leaves the persistent
\* cache as it was, returns a result, and has attempted the extraction
\* on the path (the pypdf stage ran)
C20_StatFailureStillExtracts ==
    [][(GetText(PdfPath, 1) /\ compute_fingerprint(file) = NoFp)
        => (pcache' = pcache /\ last'.valid /\ last'.pypdf)]_vars

\* ---------------------------------------------------------------------
\* Properties of the stages of get_text_for_pdf
\* ---------------------------------------------------------------------

\* C21: a call that misses the memoizer and finds a non-empty text in the
\* persistent cache returns exactly that text, stores it in the memoizer,
\* and runs neither the text-layer extraction nor the recognition fallback
C21_CacheHitReturnsCachedText ==
    [][LET key == MemoKey(PdfPath, file, 1)
           cached == get_cached_text(pcache, PdfPath, file, 1, compute_fingerprint(file))
       IN  (GetText(PdfPath, 1) /\ file.exists /\ ~MemoHas(memo, key) /\ cached # NoText)
               => /\ last'.text = cached
                  /\ ~last'.pypdf
                  /\ ~last'.ocr
                  /\ MemoHas(memo', key)
                  /\ MemoGet(memo', key) = cached]_vars

----------------------------------------------------------------------------
(* The OCR input cache *)

MAX_CACHED_PREVIEWS == 100

Min(a, b) == IF a <= b THEN a ELSE b

\* how settings name the source root: not at all, by its resolved absolute
\* path, or by a path that resolve() rewrites (through a symbolic link, or
\* relative)
RootForms == {"none", "resolved", "linked"}

\* a staged copy: its unique name and the size and mtime shutil.copy2
\* carried over from the source
Copy(id, size, mtime) == [id |-> id, size |-> size, mtime |-> mtime]
CopyIds(s) == {c.id : c \in s.files}
CopyAt(s, id) == CHOOSE c \in s.files : c.id = id

\* src.exists() and src.is_file()
SrcExists(s, src, f) ==
    CASE src.kind = "original" -> f.exists
      [] src.kind = "staged" -> src.id \in CopyIds(s)
      [] OTHER -> FALSE

\* cache_dir in resolved.parents: cache_dir is built from the configured
\* text, resolved is src.resolve()
InsideScratch(s, src) == src.kind = "staged" /\ s.root = "resolved"

\* (str(resolved), "<st_size>:<st_mtime_ns>")
MapKey(s, src, f) ==
    IF src.kind = "original"
    THEN [src |-> src, size |-> f.size, mtime |-> f.mtime]
    ELSE [src |-> src, size |-> CopyAt(s, src.id).size, mtime |-> CopyAt(s, src.id).mtime]

\* _cleanup_cache(cache_dir, keep) in process p: the directories it may
\* leave. The copies are sorted by mtime, newest first (the other copies
\* come before the staged ones, equal mtimes in any order); those after the
\* first keep are unlinked unless _CACHE_MAP of p holds them
cleanup_cache(s, p, keep) ==
    LET in_use == {e.dest : e \in s.map[p]} \cap CopyIds(s)
        room == Min(Cardinality(s.files), Max(0, keep - s.newer))
        newest == {K \in SUBSET s.files :
                      /\ Cardinality(K) = room
                      /\ \A k \in K, c \in s.files \ K : k.mtime >= c.mtime}
    IN  {[s EXCEPT !.files = K \cup {c \in s.files : c.id \in in_use},
                   !.newer = Min(s.newer, keep)] : K \in newest}

\* cache_pdf_for_ocr that leaves the unfinished copy behind when the copy
\* fails
cache_pdf_for_ocr_LeavesPartialCopy(s, p, src, f, copies, keep) ==
    LET key == MapKey(s, src, f)
        hit == {e \in s.map[p] : e.key = key /\ e.dest \in CopyIds(s)}
        dest == Copy(s.next, key.size, key.mtime)
        copied == [s EXCEPT !.files = s.files \cup {dest},
                            !.next = s.next + 1,
                            !.map[p] = {e \in s.map[p] : e.key # key}
                                           \cup {[key |-> key, dest |-> dest.id]}]
    IN  IF s.root = "none" \/ ~SrcExists(s, src, f)
        THEN {[s EXCEPT !.ret = NoPath]}
        ELSE IF InsideScratch(s, src)
        THEN {[s EXCEPT !.ret = src]}
        ELSE IF hit # {}
        THEN {[s EXCEPT !.ret = Staged(e.dest)] : e \in hit}
        ELSE IF ~copies
        THEN {[s EXCEPT !.files = s.files \cup {dest}, !.next = s.next + 1,
                        !.ret = NoPath]}
        ELSE {[c EXCEPT !.ret = Staged(dest.id)] : c \in cleanup_cache(copied, p, keep)}

\* cache_pdf_for_ocr(src, keep) in process p, with shutil.copy2 working
\* (copies) or raising: the directories, maps and return values it may
\* produce
cache_pdf_for_ocr(s, p, src, f, copies, keep) ==
    LET key == MapKey(s, src, f)
        hit == {e \in s.map[p] : e.key = key /\ e.dest \in CopyIds(s)}
        dest == Copy(s.next, key.size, key.mtime)
        copied == [s EXCEPT !.files = s.files \cup {dest},
                            !.next = s.next + 1,
                            !.map[p] = {e \in s.map[p] : e.key # key}
                                           \cup {[key |-> key, dest |-> dest.id]}]
    IN  IF s.root = "none" \/ ~SrcExists(s, src, f)
        THEN {[s EXCEPT !.ret = NoPath]}
        ELSE IF InsideScratch(s, src)
        THEN {[s EXCEPT !.ret = src]}
        ELSE IF hit # {}
        THEN {[s EXCEPT !.ret = Staged(e.dest)] : e \in hit}
        ELSE IF ~copies
        THEN {[s EXCEPT !.next = s.next + 1, !.ret = NoPath]}
        ELSE {[c EXCEPT !.ret = Staged(dest.id)] : c \in cleanup_cache(copied, p, keep)}

\* get_text_for_pdf, lines 332-341, in process p: when the quality gate
\* asks for recognition the PDF is staged and _try_ocr reads the staged
\* copy, or the original when there is none
StagedForOcr(s, p, f, max_pages, copies) ==
    IF Extraction(pcache, PdfPath, f, max_pages).ocr
    THEN {[c EXCEPT !.held[p] = IF c.ret = NoPath THEN Original ELSE c.ret] :
             c \in cache_pdf_for_ocr(s, p, Original, f, copies, MAX_CACHED_PREVIEWS)}
    ELSE {s}

\* _try_ocr of process p has returned
Released(s, p) == [s EXCEPT !.held[p] = NoPath]

----------------------------------------------------------------------------
(* The watcher process and the interactive process extracting the same file *)

\* OCR_MAX_PAGES, the page limit of the interactive OCR worker
OCR_MAX_PAGES == 2

\* the --pages argument of a watcher run: the default, and the limit the
\* interactive worker uses
WatchPages == {1, OCR_MAX_PAGES}

\* the PDF both processes look at
DupFiles == WatchFiles \ {NoFile}

\* the scratch directory when the processes start: a source root in each
\* form, no other copies or as many later ones as the prune keeps
DupScratch ==
    {[NoScratch EXCEPT !.root = r, !.newer = n] :
        r \in RootForms, n \in {0, MAX_CACHED_PREVIEWS}}

InitDup ==
    /\ jobs = [k \in JobKeys |-> NoRow]
    /\ now = Epoch
    /\ ret = 0
    /\ calls = 0
    /\ call = [w \in Workers |-> NoCall]
    /\ sweep = NoSweep
    /\ row0 = NoRow
    /\ out = NoOut
    /\ threads = NoThreads
    /\ ui = NoUi
    /\ scratch \in DupScratch
    /\ tray = NoTray
    /\ file \in DupFiles
    /\ memo = <<>>
    /\ pcache = EmptyCache
    /\ last = NoLast
    /\ watch = WatchOff

\* get_text_for_pdf, lines 302-329: does a call get past the memoizer m and
\* the persistent cache to an extraction stage
PastCacheChecks(m, path, f, max_pages) ==
    LET x == Extraction(pcache, path, f, max_pages)
    IN  /\ f.exists
        /\ ~MemoHas(m, MemoKey(path, f, max_pages))
        /\ (x.pypdf \/ x.ocr)

\* get_text_for_pdf, lines 302-344: what a call that got past the cache
\* checks holds while its extraction runs
Computing(path, f, max_pages) ==
    LET x == Extraction(pcache, path, f, max_pages)
    IN  Called(f, max_pages, x.text, "computing", x.pypdf, x.ocr, {})

\* get_text_for_pdf, lines 346-356, for a finished extraction r: the
\* memoizer and the persistent cache after the writes
MemoAfter(m, path, r) == MemoPut(m, MemoKey(path, r.file, r.pages), r.text)
CacheAfter(path, r) ==
    IF compute_fingerprint(r.file) # NoFp
    THEN upsert_cached_text(pcache, path, r.file, r.pages, r.text,
                            compute_fingerprint(r.file))
    ELSE pcache

\* _process_pdf(path, fp, pages, stats), lines 101-160, of a watcher run
\* with --pages pages: the retry check, the cache check and the RUNNING
\* upsert
ProcessPdf(pages) ==
    LET fp == watch.fp
        existing == jobs[WatchKey(fp)]
    IN  /\ watch.pc = "queued"
        /\ IF existing.status # "NONE" /\ ~can_retry(existing, DEFAULT_MAX_ATTEMPTS)
           THEN Handled(WatchUpsert(jobs, fp, "FAILED",
                                    MaxAttemptsErr(DEFAULT_MAX_ATTEMPTS), now))
           ELSE IF fp # NoFp /\ is_cached(pcache, PdfPath, file, pages, fp)
           THEN Handled(WatchUpsert(jobs, fp, "DONE", NoneErr, now))
           ELSE /\ jobs' = WatchUpsert(jobs, fp, "RUNNING", NoneErr, now)
                /\ watch' = [watch EXCEPT !.pc = "running"]
                /\ ret' = ret
        /\ last' = [last EXCEPT !.pages = pages]
        /\ UNCHANGED <<now, calls, call, sweep, row0, tray, threads, ui, scratch, out,
                       file, memo, pcache>>

\* _process_pdf, line 161: get_text_for_pdf is called and gets past the
\* cache checks; the extraction runs
ExtractBegin ==
    /\ watch.pc = "running"
    /\ PastCacheChecks(memo, PdfPath, file, last.pages)
    /\ watch' = [watch EXCEPT !.pc = "extracting"]
    /\ last' = Computing(PdfPath, file, last.pages)
    /\ \E copies \in BOOLEAN :
          scratch' \in StagedForOcr(scratch, "watcher", file, last.pages, copies)
    /\ UNCHANGED <<jobs, now, ret, calls, call, sweep, row0, tray, threads, ui, out,
                   file, memo, pcache>>

\* _process_pdf, lines 161-176: get_text_for_pdf is answered by a cache,
\* the job is DONE
ExtractCached ==
    /\ watch.pc = "running"
    /\ ~PastCacheChecks(memo, PdfPath, file, last.pages)
    /\ get_text_for_pdf(PdfPath, last.pages, DbOk)
    /\ Handled(WatchUpsert(jobs, watch.fp, "DONE", NoneErr, now))
    /\ UNCHANGED <<now, calls, call, sweep, row0, tray, threads, ui, scratch, out, file>>

\* get_text_for_pdf, lines 346-365, and _process_pdf, lines 162-176: the
\* extraction ends, the text is stored, the job is DONE
ExtractEnd ==
    /\ watch.pc = "extracting"
    /\ memo' = MemoAfter(memo, PdfPath, last)
    /\ pcache' = CacheAfter(PdfPath, last)
    /\ last' = [last EXCEPT !.source = "computed"]
    /\ scratch' = Released(scratch, "watcher")
    /\ Handled(WatchUpsert(jobs, watch.fp, "DONE", NoneErr, now))
    /\ UNCHANGED <<now, calls, call, sweep, row0, tray, threads, ui, out, file>>

\* a process ends: its _CACHE_MAP is gone and it reads no staged copy
ProcessGone(s, p) == [s EXCEPT !.map[p] = {}, !.held[p] = NoPath]

\* main: the watcher process starts; its memoizer, seen and _CACHE_MAP
\* are empty
WatcherStart ==
    /\ watch.pc = "off"
    /\ watch' = [WatchOff EXCEPT !.pc = "scan"]
    /\ memo' = <<>>
    /\ scratch' = ProcessGone(scratch, "watcher")
    /\ UNCHANGED <<jobs, now, ret, calls, call, sweep, row0, tray, threads, ui, out,
                   file, pcache, last>>

\* the watcher process is killed
WatcherKill ==
    /\ watch.pc # "off"
    /\ calls < MaxCalls
    /\ calls' = calls + 1
    /\ watch' = WatchOff
    /\ memo' = <<>>
    /\ scratch' = ProcessGone(scratch, "watcher")
    /\ UNCHANGED <<jobs, now, ret, call, sweep, row0, tray, threads, ui, out,
                   file, pcache, last>>

\* the interactive program starts: its memoizer and _CACHE_MAP are empty
UiOpen ==
    /\ ui.pc = "off"
    /\ calls < MaxCalls
    /\ calls' = calls + 1
    /\ ui' = [NoUi EXCEPT !.pc = "idle"]
    /\ scratch' = ProcessGone(scratch, "ui")
    /\ UNCHANGED <<jobs, now, ret, call, sweep, row0, tray, threads, out,
                   textVars, watch>>

\* the interactive program is closed
UiClose ==
    /\ ui.pc # "off"
    /\ ui' = NoUi
    /\ scratch' = ProcessGone(scratch, "ui")
    /\ UNCHANGED <<jobs, now, ret, calls, call, sweep, row0, tray, threads, out,
                   textVars, watch>>

\* RenameMoveTab._start_ocr_if_needed and _OcrWorker.run, lines 39-42: the
\* document is selected, no worker is in flight for it and it has no OCR
\* suggestions yet; the worker thread calls
\* get_text_for_pdf(path, OCR_MAX_PAGES), which is answered by a cache or
\* starts an extraction
UiOcrBegin ==
    LET key == MemoKey(PdfPath, file, OCR_MAX_PAGES)
        x == Extraction(pcache, PdfPath, file, OCR_MAX_PAGES)
    IN  /\ ui.pc = "idle"
        /\ IF PastCacheChecks(ui.memo, PdfPath, file, OCR_MAX_PAGES)
           THEN /\ ui' = [ui EXCEPT !.pc = "extracting",
                                    !.run = Computing(PdfPath, file, OCR_MAX_PAGES)]
                /\ pcache' = pcache
                /\ \E copies \in BOOLEAN :
                      scratch' \in StagedForOcr(scratch, "ui", file, OCR_MAX_PAGES, copies)
           ELSE IF ~file.exists
           THEN /\ ui' = [ui EXCEPT !.pc = "done"]
                /\ UNCHANGED <<pcache, scratch>>
           ELSE IF MemoHas(ui.memo, key)
           THEN /\ ui' = [ui EXCEPT !.pc = "done", !.memo = MoveToEnd(ui.memo, key)]
                /\ UNCHANGED <<pcache, scratch>>
           ELSE /\ ui' = [ui EXCEPT !.pc = "done",
                                    !.memo = MemoPut(ui.memo, key, x.text)]
                /\ pcache' = CacheAfter(PdfPath, Computing(PdfPath, file, OCR_MAX_PAGES))
                /\ scratch' = scratch
        /\ UNCHANGED <<jobs, now, ret, calls, call, sweep, row0, tray, threads, out,
                       file, memo, last, watch>>

\* get_text_for_pdf, lines 346-365, in the worker thread, and
\* _on_ocr_finished: the extraction ends, the text is stored
UiOcrEnd ==
    /\ ui.pc = "extracting"
    /\ ui' = [ui EXCEPT !.pc = "done", !.memo = MemoAfter(ui.memo, PdfPath, ui.run)]
    /\ pcache' = CacheAfter(PdfPath, ui.run)
    /\ scratch' = Released(scratch, "ui")
    /\ UNCHANGED <<jobs, now, ret, calls, call, sweep, row0, tray, threads, out,
                   file, memo, last, watch>>

\* a running process calls cache_pdf_for_ocr on a path inside the scratch
\* directory: the staged copy named id, which may have been pruned
StageStaged(p, id, copies) ==
    /\ IF p = "watcher" THEN watch.pc # "off" ELSE ui.pc # "off"
    /\ id \in 1..(scratch.next - 1)
    /\ calls < MaxCalls
    /\ calls' = calls + 1
    /\ scratch' \in cache_pdf_for_ocr(scratch, p, Staged(id), file, copies,
                                      MAX_CACHED_PREVIEWS)
    /\ UNCHANGED <<jobs, now, ret, call, sweep, row0, tray, threads, ui, out,
                   textVars, watch>>

NextDup ==
    \/ WatcherStart
    \/ WatcherKill
    \/ ScanQueue
    \/ \E pages \in WatchPages : ProcessPdf(pages)
    \/ ExtractBegin
    \/ ExtractCached
    \/ ExtractEnd
    \/ UiOpen
    \/ UiClose
    \/ UiOcrBegin
    \/ UiOcrEnd

SpecDup == InitDup /\ [][NextDup]_vars

\* the interactive process alone, and calls of cache_pdf_for_ocr on staged
\* copies
NextStage ==
    \/ UiOpen
    \/ UiClose
    \/ UiOcrBegin
    \/ UiOcrEnd
    \/ \E id \in 1..MaxCalls, copies \in BOOLEAN : StageStaged("ui", id, copies)

SpecStage == InitDup /\ [][NextStage]_vars

\* C22: at no time are two extraction computations for one file identity
\* and page limit in flight, one started by the watcher and one by the
\* interactive OCR worker
C22_NoDuplicateExtraction ==
    ~(/\ watch.pc = "extracting"
      /\ ui.pc = "extracting"
      /\ compute_fingerprint(last.file) = compute_fingerprint(ui.run.file)
      /\ last.pages = ui.run.pages)

----------------------------------------------------------------------------
(* The status badge of a file *)

\* a file of the source folder that is not a PDF; it has the content of the
\* model's file
TxtPath == "a.txt"
\* path.suffix.lower() == ".pdf"
IsPdf(path) == path \in {PdfPath, OtherPath}
\* the file a path of the badge names
BadgeFileOf(path) == IF path \in {PdfPath, TxtPath} THEN file ELSE NoFile

\* get_ocr_status that takes a finished job for cached text
get_ocr_status_DoneIsReady(cache, table, path, f, max_pages) ==
    LET fingerprint == compute_fingerprint(f)
        cached_text == get_cached_text(cache, path, f, max_pages, fingerprint)
        found == get_job(table, path, max_pages, f, fingerprint)
    IN  IF cached_text # NoText THEN {"ready"}
        ELSE IF ~f.exists \/ ~IsPdf(path) THEN {"failed"}
        ELSE { IF r[2].status \in {"QUEUED", "RUNNING"} THEN "pending"
               ELSE IF r[2].status = "DONE" THEN "ready"
               ELSE "failed" : r \in found }

\* get_ocr_status(path, max_pages): the statuses it may return (one for
\* each row get_job may return)
get_ocr_status(cache, table, path, f, max_pages) ==
    LET fingerprint == compute_fingerprint(f)
        cached_text == get_cached_text(cache, path, f, max_pages, fingerprint)
        found == get_job(table, path, max_pages, f, fingerprint)
    IN  IF cached_text # NoText THEN {"ready"}
        ELSE IF ~f.exists \/ ~IsPdf(path) THEN {"failed"}
        ELSE { IF r[2].status \in {"QUEUED", "RUNNING"} THEN "pending"
               ELSE "failed" : r \in found }

\* the job rows the table may hold: none, or one in each status
BadgeRows ==
    {NoRow} \cup
    { Row(st, Stamp("Z", 0), 1, IF st = "FAILED" THEN CallerErr ELSE NoneErr,
          WORKER_ID, DEFAULT_MAX_ATTEMPTS) : st \in STATUS_ALLOWED }
BadgeTables == [JobKeys -> BadgeRows]

\* the cache rows of the first identity: none, a text, an empty text
BadgeCaches ==
    {EmptyCache} \cup
    { CacheKey(PdfPath, RaceKey.fp, 1) :> t : t \in {Text("invoice", 500, 80), NoText} }

InitBadge ==
    /\ jobs \in BadgeTables
    /\ now = 0
    /\ ret = 0
    /\ calls = 0
    /\ call = [w \in Workers |-> NoCall]
    /\ sweep = NoSweep
    /\ row0 = NoRow
    /\ out = NoOut
    /\ threads = NoThreads
    /\ ui = [NoUi EXCEPT !.pc = "idle"]
    /\ scratch = NoScratch
    /\ tray = NoTray
    /\ file \in StoreFiles
    /\ memo = <<>>
    /\ pcache \in BadgeCaches
    /\ last = NoLast
    /\ watch = WatchOff

\* the interactive process computes the badge of a file; out keeps the
\* identity it asked about
GetOcrStatus(path, max_pages) ==
    /\ calls < MaxCalls
    /\ calls' = calls + 1
    /\ \E s \in get_ocr_status(pcache, jobs, path, BadgeFileOf(path), max_pages) :
          ui' = [ui EXCEPT !.badge = s]
    /\ out' = Out("get_ocr_status",
                  Key(path, max_pages, compute_fingerprint(BadgeFileOf(path))),
                  NoRow, NoText, FALSE)
    /\ UNCHANGED <<jobs, now, ret, call, sweep, row0, tray, threads, scratch,
                   textVars, watch>>

NextBadge ==
    \/ \E path \in {PdfPath, TxtPath, OtherPath}, max_pages \in CachePages :
          GetOcrStatus(path, max_pages)
    \/ \E f \in StoreFiles : WriteFile(f)

SpecBadge == InitBadge /\ [][NextBadge]_vars

\* the cache holds a non-empty text for the current fingerprint of the
\* file of path and the page limit
BadgeReady(path, max_pages) ==
    LET f == BadgeFileOf(path)
        k == CacheKey(path, Fp(f.size, f.mtime \div TicksPerSec), max_pages)
    IN  f.exists /\ k \in DOMAIN pcache /\ pcache[k] # NoText

\* the file of path is there, is a PDF, and the job row of its current
\* identity is QUEUED or RUNNING
BadgePending(path, max_pages) ==
    LET f == BadgeFileOf(path)
        k == Key(path, max_pages, Fp(f.size, f.mtime \div TicksPerSec))
    IN  /\ f.exists
        /\ path \in {PdfPath, OtherPath}
        /\ k \in JobKeys
        /\ jobs[k].status \in {"QUEUED", "RUNNING"}

\* C23: get_ocr_status returns ready exactly when the cache holds non-empty
\* text for the file's current fingerprint and page limit; otherwise
\* pending exactly when the file exists as a PDF and its job row is QUEUED
\* or RUNNING; otherwise failed
C23_StatusTrichotomy ==
    [][\A path \in {PdfPath, TxtPath, OtherPath}, max_pages \in CachePages :
          GetOcrStatus(path, max_pages) =>
              ui'.badge = IF BadgeReady(path, max_pages) THEN "ready"
                          ELSE IF BadgePending(path, max_pages) THEN "pending"
                          ELSE "failed"]_vars

\* the badge of the PDF was computed while its job row was DONE and the
\* cache held no text for it: it is "failed"
C23_Witness ==
    /\ out.op = "get_ocr_status"
    /\ out.key = Key(PdfPath, 1, compute_fingerprint(file))
    /\ calls = 1
    /\ file.exists
    /\ jobs[out.key].status = "DONE"
    /\ \A k \in DOMAIN pcache : pcache[k] = NoText
    /\ ui.badge = "failed"

\* C24: while the recognition of a process reads a staged copy, the copy
\* is in the scratch directory: no prune of a cache_pdf_for_ocr call, in
\* the same or in another process, has removed it
C24_HeldCopyNotPruned ==
    \A p \in Procs :
        scratch.held[p].kind = "staged" => scratch.held[p].id \in CopyIds(scratch)

\* C25: cache_pdf_for_ocr on a copy that lies in the scratch directory
\* returns that path, creates no copy, adds no map entry and deletes no
\* file
C25_StagedInputIdempotent ==
    [][\A id \in 1..MaxCalls, copies \in BOOLEAN :
          (StageStaged("ui", id, copies) /\ id \in CopyIds(scratch))
              => /\ scratch'.ret = Staged(id)
                 /\ scratch'.files = scratch.files
                 /\ scratch'.newer = scratch.newer
                 /\ scratch'.map = scratch.map]_vars

----------------------------------------------------------------------------
(* The memoizer under the worker threads of one process *)

\* the documents the threads ask the text of: two PDFs with the size,
\* mtime and content of the model's file
ThreadPaths == {PdfPath, OtherPath}

\* the key of another document cached earlier in the run
FillerKey(i) == [path |-> "c.pdf", mtime |-> i, pages |-> 1]
FillerText == Text("other", 300, 40)

\* _text_cache after earlier calls of the run: n entries, with the entry
\* of a.pdf (when first is set) the least recently used one
UsedMemo(f, n, first) ==
    [i \in 1..n |->
        IF i = 1 /\ first
        THEN [key |-> MemoKey(PdfPath, f, OCR_MAX_PAGES),
              text |-> Extraction(EmptyCache, PdfPath, f, OCR_MAX_PAGES).text]
        ELSE [key |-> FillerKey(i), text |-> FillerText]]

InitMemo ==
    /\ jobs = [k \in JobKeys |-> NoRow]
    /\ now = 0
    /\ ret = 0
    /\ calls = 0
    /\ call = [w \in Workers |-> NoCall]
    /\ sweep = NoSweep
    /\ row0 = NoRow
    /\ out = NoOut
    /\ threads = NoThreads
    /\ ui = [NoUi EXCEPT !.pc = "idle"]
    /\ scratch = NoScratch
    /\ tray = NoTray
    /\ file \in DupFiles
    /\ memo \in {<<>>, UsedMemo(file, TEXT_CACHE_MAX_ENTRIES, TRUE)}
    /\ pcache = EmptyCache
    /\ last = NoLast
    /\ watch = WatchOff

\* _OcrWorker.run and get_text_for_pdf, lines 302-306, in thread t: a
\* worker is started for a document no worker is in flight for; the thread
\* resolves the path, builds the key and tests "key in _text_cache"
ThCall(t, path) ==
    LET key == MemoKey(path, file, OCR_MAX_PAGES)
    IN  /\ threads[t].pc = "idle"
        /\ \A t2 \in Threads : threads[t2].pc \in {"idle", "returned", "raised"}
                                  \/ threads[t2].path # path
        /\ calls < MaxCalls
        /\ calls' = calls + 1
        /\ threads' = [threads EXCEPT ![t] =
              [pc |-> IF ~file.exists THEN "returned"
                      ELSE IF MemoHas(memo, key) THEN "read" ELSE "compute",
               path |-> path,
               run |-> Called(file, OCR_MAX_PAGES, NoText, "missing", FALSE, FALSE, {}),
               ocr |-> NoOcr]]
        /\ UNCHANGED <<jobs, now, ret, call, sweep, row0, tray, ui, scratch, out,
                       textVars, watch>>

\* the key of the call of thread t
ThKey(t) == MemoKey(threads[t].path, threads[t].run.file, threads[t].run.pages)

\* line 307, cached_val = _text_cache[key]: KeyError when the entry is gone
ThRead(t) ==
    /\ threads[t].pc = "read"
    /\ threads' = [threads EXCEPT ![t] =
          IF MemoHas(memo, ThKey(t))
          THEN [@ EXCEPT !.pc = "promote", !.run.text = MemoGet(memo, ThKey(t)),
                         !.run.source = "memo"]
          ELSE [@ EXCEPT !.pc = "raised"]]
    /\ UNCHANGED <<jobs, now, ret, calls, call, sweep, row0, tray, ui, scratch, out,
                   textVars, watch>>

\* lines 308-309, _text_cache.move_to_end(key) and return: KeyError when
\* the entry is gone
ThPromote(t) ==
    /\ threads[t].pc = "promote"
    /\ IF MemoHas(memo, ThKey(t))
       THEN /\ memo' = MoveToEnd(memo, ThKey(t))
            /\ threads' = [threads EXCEPT ![t].pc = "returned"]
       ELSE /\ memo' = memo
            /\ threads' = [threads EXCEPT ![t].pc = "raised"]
    /\ UNCHANGED <<jobs, now, ret, calls, call, sweep, row0, tray, ui, scratch, out,
                   file, pcache, last, watch>>

\* lines 311-344: the persistent cache is read and the stages run
ThCompute(t) ==
    /\ threads[t].pc = "compute"
    /\ threads' = [threads EXCEPT ![t] =
          [@ EXCEPT !.pc = "insert",
                    !.run = Computing(threads[t].path, threads[t].run.file,
                                      threads[t].run.pages)]]
    /\ UNCHANGED <<jobs, now, ret, calls, call, sweep, row0, tray, ui, scratch, out,
                   textVars, watch>>

\* line 346, _text_cache[key] = text: a new entry goes to the end, an
\* entry that is there keeps its place
ThInsert(t) ==
    LET key == ThKey(t)
        e == [key |-> key, text |-> threads[t].run.text]
    IN  /\ threads[t].pc = "insert"
        /\ memo' = IF MemoHas(memo, key)
                   THEN [i \in 1..Len(memo) |-> IF memo[i].key = key THEN e ELSE memo[i]]
                   ELSE memo \o <<e>>
        /\ threads' = [threads EXCEPT ![t].pc = "promote2"]
        /\ UNCHANGED <<jobs, now, ret, calls, call, sweep, row0, tray, ui, scratch, out,
                       file, pcache, last, watch>>

\* line 347, _text_cache.move_to_end(key): KeyError when the entry is gone
ThPromoteNew(t) ==
    /\ threads[t].pc = "promote2"
    /\ IF MemoHas(memo, ThKey(t))
       THEN /\ memo' = MoveToEnd(memo, ThKey(t))
            /\ threads' = [threads EXCEPT ![t].pc = "evict"]
       ELSE /\ memo' = memo
            /\ threads' = [threads EXCEPT ![t].pc = "raised"]
    /\ UNCHANGED <<jobs, now, ret, calls, call, sweep, row0, tray, ui, scratch, out,
                   file, pcache, last, watch>>

\* lines 348-349: popitem(last=False) when the cache is over its limit
ThEvict(t) ==
    /\ threads[t].pc = "evict"
    /\ memo' = IF Len(memo) > TEXT_CACHE_MAX_ENTRIES THEN Tail(memo) ELSE memo
    /\ threads' = [threads EXCEPT ![t].pc = "store"]
    /\ UNCHANGED <<jobs, now, ret, calls, call, sweep, row0, tray, ui, scratch, out,
                   file, pcache, last, watch>>

\* lines 350-365: the text is written to the persistent cache and returned
ThStore(t) ==
    /\ threads[t].pc = "store"
    /\ pcache' = CacheAfter(threads[t].path, threads[t].run)
    /\ threads' = [threads EXCEPT ![t].pc = "returned", ![t].run.source = "computed"]
    /\ UNCHANGED <<jobs, now, ret, calls, call, sweep, row0, tray, ui, scratch, out,
                   file, memo, last, watch>>

\* _on_ocr_finished, _on_ocr_failed: the worker thread ends
ThEnd(t) ==
    /\ threads[t].pc \in {"returned", "raised"}
    /\ threads' = [threads EXCEPT ![t] = NoRun]
    /\ last' = threads[t].run
    /\ UNCHANGED <<jobs, now, ret, calls, call, sweep, row0, tray, ui, scratch, out,
                   file, memo, pcache, watch>>

NextMemo ==
    \E t \in Threads :
        \/ \E path \in ThreadPaths : ThCall(t, path)
        \/ ThRead(t)
        \/ ThPromote(t)
        \/ ThCompute(t)
        \/ ThInsert(t)
        \/ ThPromoteNew(t)
        \/ ThEvict(t)
        \/ ThStore(t)
        \/ ThEnd(t)

SpecMemo == InitMemo /\ [][NextMemo]_vars

\* C27: whatever the interleaving of the threads' membership test, read,
\* insert, promote and evict steps, no get_text_for_pdf call raises, and a
\* call that returns a memoized text returns the text stored for its key
C27_MemoizerGuarded ==
    \A t \in Threads :
        /\ threads[t].pc # "raised"
        /\ (threads[t].pc = "returned" /\ threads[t].run.source = "memo")
              => threads[t].run.text
                    = Extraction(EmptyCache, threads[t].path, threads[t].run.file,
                                 threads[t].run.pages).text

----------------------------------------------------------------------------
(* The memoizer at its capacity, one call at a time *)

\* _text_cache after earlier calls: one entry short of its limit, or full;
\* the text of a.pdf among the entries or not
LruMemos(f) ==
    {UsedMemo(f, TEXT_CACHE_MAX_ENTRIES - 1, FALSE),
     UsedMemo(f, TEXT_CACHE_MAX_ENTRIES, FALSE)}
        \cup (IF f.exists THEN {UsedMemo(f, TEXT_CACHE_MAX_ENTRIES, TRUE)} ELSE {})

InitLru ==
    /\ jobs = [k \in JobKeys |-> NoRow]
    /\ now = 0
    /\ ret = 0
    /\ calls = 0
    /\ call = [w \in Workers |-> NoCall]
    /\ sweep = NoSweep
    /\ row0 = NoRow
    /\ out = NoOut
    /\ threads = NoThreads
    /\ ui = NoUi
    /\ scratch = NoScratch
    /\ tray = NoTray
    /\ file \in WatchFiles
    /\ memo \in LruMemos(file)
    /\ pcache = EmptyCache
    /\ last = NoLast
    /\ watch = WatchOff

NextLru ==
    \/ \E path \in ThreadPaths, max_pages \in CachePages : GetText(path, max_pages)
    \/ \E f \in WatchFiles : WriteFile(f)

SpecLru == InitLru /\ [][NextLru]_vars

\* C28: a get_text_for_pdf call leaves at most 128 entries in the
\* memoizer; a hit moves its entry to the most recently used end and
\* changes nothing else; an insert puts the new entry at that end and, when
\* the memoizer was full, drops the least recently used entry and no other
C28_LruBounded ==
    [][\A path \in ThreadPaths, max_pages \in CachePages :
          GetText(path, max_pages) =>
              LET key == MemoKey(path, file, max_pages)
              IN  /\ Len(memo') <= TEXT_CACHE_MAX_ENTRIES
                  /\ (file.exists /\ MemoHas(memo, key)) =>
                        /\ memo'[Len(memo')].key = key
                        /\ Len(memo') = Len(memo)
                        /\ MemoWithout(memo', key) = MemoWithout(memo, key)
                  /\ (file.exists /\ ~MemoHas(memo, key)) =>
                        /\ memo'[Len(memo')].key = key
                        /\ MemoWithout(memo', key)
                              = IF Len(memo) = TEXT_CACHE_MAX_ENTRIES
                                THEN Tail(memo) ELSE memo]_vars

\* a call inserted the text of a.pdf into the full memoizer and the oldest
\* entry was dropped
C28_Witness ==
    /\ Len(memo) = TEXT_CACHE_MAX_ENTRIES
    /\ memo[1].key = FillerKey(2)
    /\ memo[TEXT_CACHE_MAX_ENTRIES].key.path = PdfPath
    /\ last.valid
    /\ last.source = "computed"

----------------------------------------------------------------------------
(* The quality gate *)

\* text layers around the gate: the two of the documentation, and those
\* one character or one word to either side of the thresholds
GateLayers ==
    { Text("short", 50, 5), Text("typed", 500, 80),
      Text("at the limits", MIN_TEXT_CHARS, MIN_TEXT_WORDS),
      Text("one character less", MIN_TEXT_CHARS - 1, MIN_TEXT_WORDS),
      Text("one word less", MIN_TEXT_CHARS, MIN_TEXT_WORDS - 1),
      Text("long words", 500, 5), NoText }

\* PDFs with these layers whose page images yield a text or none
GateFiles ==
    {File(TRUE, 10, 2, Body(l, o)) :
        l \in GateLayers, o \in {NoText, Text("scanned letter", 900, 150)}}

InitGate ==
    /\ jobs = [k \in JobKeys |-> NoRow]
    /\ now = 0
    /\ ret = 0
    /\ calls = 0
    /\ call = [w \in Workers |-> NoCall]
    /\ sweep = NoSweep
    /\ row0 = NoRow
    /\ out = NoOut
    /\ threads = NoThreads
    /\ ui = NoUi
    /\ scratch = NoScratch
    /\ tray = NoTray
    /\ file \in GateFiles
    /\ memo = <<>>
    /\ pcache = EmptyCache
    /\ last = NoLast
    /\ watch = WatchOff

NextGate ==
    \/ GetText(PdfPath, 1)
    \/ \E f \in GateFiles : WriteFile(f)
    \/ Restart

SpecGate == InitGate /\ [][NextGate]_vars

\* C29: in a call that misses the memoizer and the persistent cache the
\* recognition fallback runs exactly when the text of the direct
\* extraction has fewer than 200 characters or fewer than 15 words
C29_GateExact ==
    [][(/\ GetText(PdfPath, 1)
        /\ file.exists
        /\ ~MemoHas(memo, MemoKey(PdfPath, file, 1))
        /\ get_cached_text(pcache, PdfPath, file, 1, compute_fingerprint(file)) = NoText)
          => /\ last'.pypdf
             /\ last'.ocr <=> (file.body.layer.chars < 200 \/ file.body.layer.words < 15)]_vars

\* the direct extraction gave 50 characters in 5 words and the
\* recognition ran; its text was returned
C29_Witness ==
    /\ last.valid
    /\ last.source = "computed"
    /\ last.file.body.layer = Text("short", 50, 5)
    /\ last.pypdf
    /\ last.ocr
    /\ last.text = Text("scanned letter", 900, 150)

----------------------------------------------------------------------------
(* The recognition of a page: _try_ocr and _ocr_page_with_retries *)

WEAK_TEXT_CHARS == 120
WEAK_TEXT_WORDS == 18
OCR_DPI == 300
\* _OCR_PSMS
OCR_PSMS == <<6, 11, 4>>
\* scale_psm_plan: one scale (in dpi) with the list of segmentation modes
scale_psm_plan == << [dpi |-> OCR_DPI, psms |-> OCR_PSMS] >>

\* what tesseract reads off a page in one attempt: the text, the share of
\* letters among its characters (percent) and the keywords it contains
Reading(text, alpha, hits) == [text |-> text, alpha |-> alpha, hits |-> hits]
NoReading == Reading(NoText, 0, 0)

\* _text_quality_score, times 100
text_quality_score(r) ==
    IF r.text = NoText THEN 0
    ELSE r.text.words * 100 + r.alpha * 40 + r.hits * 600

\* _is_weak_text
is_weak_text(text) == text.chars < WEAK_TEXT_CHARS \/ text.words < WEAK_TEXT_WORDS

\* the readings an attempt may give: nothing, a smudged line, a clear page,
\* a short text full of keywords (weak, with the highest score)
Readings ==
    { NoReading,
      Reading(Text("smudged", 60, 10), 80, 0),
      Reading(Text("clear", 300, 50), 90, 1),
      Reading(Text("keywords", 110, 17), 90, 9) }

\* a page: the reading of each attempt of the plan, in the plan's order
PageReadings == [1..Len(OCR_PSMS) -> Readings]
ClearPage == [i \in 1..Len(OCR_PSMS) |-> Reading(Text("clear", 300, 50), 90, 1)]

BlankPage == [i \in 1..Len(OCR_PSMS) |-> NoReading]
SmudgedPage == [i \in 1..Len(OCR_PSMS) |-> Reading(Text("smudged", 60, 10), 80, 0)]

\* the documents: one page, or two with a clear, smudged or blank second
\* page
OcrDocs ==
    {<<p>> : p \in PageReadings}
        \cup {<<p, q>> : p \in PageReadings, q \in {ClearPage, SmudgedPage, BlankPage}}

InitOcr ==
    /\ jobs = [k \in JobKeys |-> NoRow]
    /\ now = 0
    /\ ret = 0
    /\ calls = 0
    /\ call = [w \in Workers |-> NoCall]
    /\ sweep = NoSweep
    /\ row0 = NoRow
    /\ out = NoOut
    /\ threads = NoThreads
    /\ ui = NoUi
    /\ scratch = NoScratch
    /\ tray = NoTray
    /\ file \in DupFiles
    /\ memo = <<>>
    /\ pcache = EmptyCache
    /\ last = NoLast
    /\ watch = WatchOff

\* the locals at the start of _ocr_page_with_retries(doc, page_idx)
AtPage(o, page) ==
    [o EXCEPT !.page = page, !.scale = 1, !.psm = 1, !.tried = <<>>,
              !.best = NoText, !.score = -1]

\* _try_ocr(path, max_pages), lines 283-286: the document is open and the
\* loop over the first min(max_pages, page_count, OCR_MAX_PAGES) pages
\* starts
OcrOpen(t, doc, max_pages) ==
    LET used == SubSeq(doc, 1, Min(max_pages, Min(Len(doc), OCR_MAX_PAGES)))
    IN  /\ threads[t].pc = "idle"
        /\ calls < MaxCalls
        /\ calls' = calls + 1
        /\ threads' = [threads EXCEPT ![t] =
              [@ EXCEPT !.pc = "attempt", !.path = PdfPath,
                        !.ocr = AtPage([NoOcr EXCEPT !.doc = used], 1)]]
        /\ UNCHANGED <<jobs, now, ret, call, sweep, row0, tray, ui, scratch, out,
                       textVars, watch>>

\* _ocr_page_with_retries, lines 257-277: one pass of the loop over the
\* segmentation modes of the scale: the attempt, and best_text and
\* best_score when its score is the best yet
OcrAttempt(t) ==
    LET o == threads[t].ocr
        r == o.doc[o.page][o.psm]
        is_best == text_quality_score(r) > o.score
    IN  /\ threads[t].pc = "attempt"
        /\ o.psm <= Len(scale_psm_plan[o.scale].psms)
        /\ threads' = [threads EXCEPT ![t].ocr =
              [o EXCEPT !.psm = o.psm + 1,
                        !.tried = Append(o.tried, r),
                        !.best = IF is_best THEN r.text ELSE o.best,
                        !.score = IF is_best THEN text_quality_score(r) ELSE o.score]]
        /\ UNCHANGED <<jobs, now, ret, calls, call, sweep, row0, tray, ui, scratch, out,
                       textVars, watch>>

\* _ocr_page_with_retries, lines 278-280, and _try_ocr, lines 286-288: the
\* modes of the scale are used up; with a best text that is not weak, or
\* after the last scale, the page ends and its text is kept when it is not
\* empty; the next page starts or the loop ends
OcrScaleEnd(t) ==
    LET o == threads[t].ocr
        stop == (o.best # NoText /\ ~is_weak_text(o.best))
                    \/ o.scale = Len(scale_psm_plan)
        texts == IF o.best # NoText THEN Append(o.texts, o.best) ELSE o.texts
    IN  /\ threads[t].pc = "attempt"
        /\ o.psm > Len(scale_psm_plan[o.scale].psms)
        /\ threads' = [threads EXCEPT ![t] =
              IF ~stop
              THEN [@ EXCEPT !.ocr = [o EXCEPT !.scale = o.scale + 1, !.psm = 1]]
              ELSE IF o.page < Len(o.doc)
              THEN [@ EXCEPT !.ocr = AtPage([o EXCEPT !.texts = texts], o.page + 1)]
              ELSE [@ EXCEPT !.pc = "combine", !.ocr = [o EXCEPT !.texts = texts]]]
        /\ UNCHANGED <<jobs, now, ret, calls, call, sweep, row0, tray, ui, scratch, out,
                       textVars, watch>>

\* the text a + "\n" + b
Lines(a, b) ==
    CASE a = "clear" /\ b = "clear" -> "clear\nclear"
      [] a = "clear" /\ b = "smudged" -> "clear\nsmudged"
      [] a = "smudged" /\ b = "clear" -> "smudged\nclear"
      [] a = "smudged" /\ b = "smudged" -> "smudged\nsmudged"
      [] a = "keywords" /\ b = "clear" -> "keywords\nclear"
      [] a = "keywords" /\ b = "smudged" -> "keywords\nsmudged"
      [] OTHER -> "other"

\* the join of the first page's text alone
Joined_FirstPageOnly(texts) == IF Len(texts) = 0 THEN NoText ELSE texts[1]

\* "\n".join(texts), for the texts of at most OCR_MAX_PAGES pages
Joined(texts) ==
    IF Len(texts) = 0 THEN NoText
    ELSE IF Len(texts) = 1 THEN texts[1]
    ELSE Text(Lines(texts[1].id, texts[2].id),
              texts[1].chars + 1 + texts[2].chars,
              texts[1].words + texts[2].words)

\* _try_ocr, lines 292-298: the texts of the pages are joined and returned
OcrReturn(t) ==
    /\ threads[t].pc = "combine"
    /\ threads' = [threads EXCEPT ![t] = NoRun]
    /\ out' = Out("_try_ocr", NoKey, NoRow, Joined(threads[t].ocr.texts), FALSE)
    /\ UNCHANGED <<jobs, now, ret, calls, call, sweep, row0, tray, ui, scratch,
                   textVars, watch>>

NextOcr ==
    \/ \E doc \in OcrDocs, max_pages \in CachePages : OcrOpen("t1", doc, max_pages)
    \/ OcrAttempt("t1")
    \/ OcrScaleEnd("t1")
    \/ OcrReturn("t1")

SpecOcr == InitOcr /\ [][NextOcr]_vars

\* C30: on a page no further combination is tried once an attempt has given
\* a strong text (at least 120 characters and at least 18 words)
C30_StopsAtStrong ==
    [][OcrAttempt("t1") =>
          \A i \in 1..Len(threads["t1"].ocr.tried) :
              LET text == threads["t1"].ocr.tried[i].text
              IN  ~(text.chars >= 120 /\ text.words >= 18)]_vars

\* the earliest attempt with the highest quality score among the attempts
\* tr, and the text it read
BestAttempt(tr) ==
    CHOOSE i \in 1..Len(tr) :
        \A j \in 1..Len(tr) :
            /\ text_quality_score(tr[j]) <= text_quality_score(tr[i])
            /\ j < i => text_quality_score(tr[j]) < text_quality_score(tr[i])
BestText(tr) == tr[BestAttempt(tr)].text

\* the pages of doc, in order, whose best text is not empty
PagesWithText(doc) ==
    LET Kept[n \in 0..Len(doc)] ==
            IF n = 0 THEN <<>>
            ELSE IF BestText(doc[n]) # NoText THEN Append(Kept[n - 1], n)
            ELSE Kept[n - 1]
    IN  Kept[Len(doc)]

\* C31: the text kept for a page is the text of the earliest attempt with
\* the highest quality score among the attempts made, and the result of the
\* fallback is the best texts of the pages that have one, in page order,
\* joined by newlines
C31_BestPerPageJoined ==
    [][/\ OcrAttempt("t1") =>
              threads'["t1"].ocr.best = BestText(threads'["t1"].ocr.tried)
       /\ OcrReturn("t1") =>
              LET doc == threads["t1"].ocr.doc
                  kept == PagesWithText(doc)
              IN  /\ Len(kept) = 0 => out'.text = NoText
                  /\ Len(kept) = 1 => out'.text = BestText(doc[kept[1]])
                  /\ Len(kept) = 2 =>
                        /\ out'.text.id = Lines(BestText(doc[1]).id, BestText(doc[2]).id)
                        /\ out'.text.chars =
                              BestText(doc[1]).chars + 1 + BestText(doc[2]).chars
                        /\ out'.text.words =
                              BestText(doc[1]).words + BestText(doc[2]).words]_vars

\* the fallback returned the texts of two pages, joined
C31_Witness ==
    /\ out.op = "_try_ocr"
    /\ out.text.id = "clear\nsmudged"

\* C32: on a miss of both caches get_text_for_pdf returns the fallback's
\* text when the fallback ran and gave a text, and the text layer's text
\* otherwise
C32_FallbackReplacesWhenNonEmpty ==
    [][(GetText(PdfPath, 1) /\ last'.source = "computed" /\ last'.pypdf) =>
          last'.text = IF last'.ocr /\ file.body.ocr # NoText
                       THEN file.body.ocr
                       ELSE file.body.layer]_vars

\* a miss where the fallback ran, gave nothing, and the weak text layer was
\* returned
C32_Witness ==
    /\ last.valid /\ last.source = "computed" /\ last.ocr
    /\ last.file.body.ocr = NoText
    /\ last.file.body.layer # NoText
    /\ last.text = last.file.body.layer

\* the caches after a call agree with the text it returned: the memoizer
\* holds the text under the call's key, and the persistent cache holds the
\* text capped under (path, fingerprint, max_pages), or is as before when
\* the fingerprint is empty
WrittenThrough(path, max_pages) ==
    LET key == MemoKey(path, file, max_pages)
        fingerprint == compute_fingerprint(file)
        row == CacheKey(path, fingerprint, max_pages)
    IN  /\ MemoHas(memo', key)
        /\ MemoGet(memo', key) = last'.text
        /\ fingerprint # NoFp =>
              /\ row \in DOMAIN pcache'
              /\ pcache'[row].id = last'.text.id
              /\ pcache'[row].words = last'.text.words
              /\ pcache'[row].chars = Min(last'.text.chars, 200000)
        /\ fingerprint = NoFp => pcache' = pcache

\* C33: every call that is not a memoizer hit leaves both caches agreeing
\* with the text it returned
C33_EveryMissWritesThrough ==
    [][\A max_pages \in CachePages :
          (GetText(PdfPath, max_pages) /\ last'.source # "memo") =>
              WrittenThrough(PdfPath, max_pages)]_vars

\* the calls on a file that exists do
MissOnExistingFileWritesThrough ==
    [][\A max_pages \in CachePages :
          (GetText(PdfPath, max_pages) /\ file.exists /\ last'.source # "memo") =>
              WrittenThrough(PdfPath, max_pages)]_vars

----------------------------------------------------------------------------
(* The watcher's handling of one file *)

\* C34: the row of a file the watcher extracts is RUNNING, with one more
\* attempt counted, when the extraction starts; it is DONE when the
\* extraction returned and FAILED with the error text and the attempts
\* counted when it raised; and when _process_pdf returns the row is DONE or
\* FAILED
C34_RunningThenTerminal ==
    [][LET k == WatchKey(watch.fp)
       IN  /\ (ProcessStart /\ watch'.pc = "running") =>
                  /\ jobs'[k].status = "RUNNING"
                  /\ jobs'[k].attempts = jobs[k].attempts + 1
           /\ ExtractDone => jobs'[k].status = "DONE"
           /\ ExtractRaise =>
                  /\ jobs'[k].status = "FAILED"
                  /\ jobs'[k].last_error = CallerErr
                  /\ jobs'[k].attempts = jobs[k].attempts
                  /\ jobs'[k].attempts >= 1
           /\ (watch.pc \in {"queued", "running"} /\ watch'.pc = "loop") =>
                  jobs'[k].status \in {"DONE", "FAILED"}]_vars

\* the watcher is back in its loop after an extraction that raised on the
\* second attempt
C34_Witness ==
    /\ watch.pc = "loop"
    /\ watch.seen # NoFp
    /\ jobs[WatchKey(watch.seen)].status = "FAILED"
    /\ jobs[WatchKey(watch.seen)].last_error = CallerErr
    /\ jobs[WatchKey(watch.seen)].attempts = 2
    /\ jobs[WatchKey(watch.seen)].worker_id = WORKER_ID

\* the watcher's own steps: the loops of _initial_scan, _poll_loop and the
\* event handler keep running while the process lives, and a stopped
\* watcher is started again
WatcherStep ==
    \/ WatchStart
    \/ ScanQueue
    \/ LoopQueue
    \/ ProcessStart
    \/ ExtractDone
    \/ ExtractRaise

\* the watcher, the widget's retry, and the file rewritten or removed
NextSettle ==
    \/ WatchStart
    \/ WatchKill
    \/ ScanQueue
    \/ LoopQueue
    \/ ProcessStart
    \/ ExtractDone
    \/ ExtractRaise
    \/ MaybeMarkStalled
    \/ \E k \in JobKeys : UiRetry(k)
    \/ \E f \in WatchFiles : WriteFile(f)

SpecSettle == InitWatch /\ [][NextSettle]_vars /\ WF_vars(WatcherStep)

\* the row of the watched file is FAILED with 'Max attempts exceeded (3)'
Settled ==
    LET k == WatchKey(compute_fingerprint(file))
    IN  /\ jobs[k].status = "FAILED"
        /\ jobs[k].last_error = MaxAttemptsErr(DEFAULT_MAX_ATTEMPTS)

----------------------------------------------------------------------------
(* The job table under every operation of the store, the upserts and the *)
(* sweep of several processes interleaved statement by statement          *)

\* the upserts made: RUNNING, which counts an attempt, with the ceilings 0
\* and 2
TableCalls == {"RUNNING"} \X {0, 2}

NextTable ==
    \/ \E w \in Workers, c \in TableCalls :
          UpsertRead(w, c[1], NoneErr, WORKER_ID, c[2])
    \/ \E w \in Workers : UpsertWrite(w)
    \/ \E p \in StalePairs : SweepRead(p[1], p[2])
    \/ SweepWrite
    \/ Prune(0, DbOk)
    \/ ClearJob(RaceKey)
    \/ ClearAllJobs(DbOk)
    \/ Tick

SpecTable == InitRace /\ [][NextTable]_vars

\* C36: every row has 0 <= attempts <= max_attempts
C36_AttemptsWithinCeiling ==
    \A k \in JobKeys :
        jobs[k].status # "NONE" =>
            /\ 0 <= jobs[k].attempts
            /\ jobs[k].attempts <= jobs[k].max_attempts

\* a row at its ceiling after a refused request, written while another
\* upsert of the same row was between its read and its write
C36_Witness ==
    /\ jobs[RaceKey].status = "FAILED"
    /\ jobs[RaceKey].attempts = jobs[RaceKey].max_attempts
    /\ jobs[RaceKey].last_error = MaxAttemptsErr(jobs[RaceKey].max_attempts)
    /\ \E w \in Workers : call[w].pc = "read"

----------------------------------------------------------------------------
(* The tray application: OcrTrayApp, its monitor thread and its menu *)

\* _is_running: bool(self._proc and self._proc.poll() is None)
is_running(tr) == tr.proc # 0 /\ tr.proc \in tr.alive

\* _start_watcher leaving a subprocess it already has alone only when _proc
\* is set, alive or not
start_watcher_KeepsDeadProc(tr) ==
    IF tr.proc # 0 THEN tr
    ELSE [tr EXCEPT !.proc = tr.next, !.alive = @ \cup {tr.next}, !.next = @ + 1]

\* _start_watcher, under the lock: nothing when _proc is alive, else a new
\* subprocess becomes _proc
start_watcher(tr) ==
    IF is_running(tr) THEN tr
    ELSE [tr EXCEPT !.proc = tr.next, !.alive = @ \cup {tr.next}, !.next = @ + 1]

InitTray ==
    /\ jobs = [k \in JobKeys |-> NoRow]
    /\ now = 0
    /\ ret = 0
    /\ calls = 0
    /\ call = [w \in Workers |-> NoCall]
    /\ sweep = NoSweep
    /\ row0 = NoRow
    /\ out = NoOut
    /\ threads = NoThreads
    /\ ui = NoUi
    /\ scratch = NoScratch
    /\ tray = NoTray
    /\ TextIdle

\* a step of the tray that touches nothing else
TrayStep(tr) ==
    /\ tray' = tr
    /\ UNCHANGED <<jobs, now, ret, calls, call, sweep, row0, threads, ui, scratch, out,
                   textVars, watch>>

\* run(): the monitor thread starts and the icon's loop serves the menu
TrayRun ==
    /\ tray.mon.pc = "off"
    /\ TrayStep([tray EXCEPT !.mon.pc = "start", !.menu.pc = "idle"])

\* _monitor_loop, lines 166 and 171: _start_watcher()
MonStart ==
    /\ tray.mon.pc \in {"start", "restart"}
    /\ TrayStep([start_watcher(tray) EXCEPT !.mon.pc = "read"])

\* _refresh_icon, line 121: running = self._is_running()
MonRead ==
    /\ tray.mon.pc = "read"
    /\ TrayStep([tray EXCEPT !.mon.pc = "set", !.mon.r = is_running(tray)])

\* _refresh_icon, lines 122-125: the icon and the title are set, and the
\* loop sleeps
MonSet ==
    /\ tray.mon.pc = "set"
    /\ TrayStep([tray EXCEPT !.mon.pc = "loop",
                             !.icon = IF tray.mon.r THEN "green" ELSE "red"])

\* _monitor_loop, line 169: while not self._stop_event.is_set()
MonLoop ==
    /\ tray.mon.pc = "loop"
    /\ TrayStep([tray EXCEPT !.mon.pc = IF tray.stop THEN "end" ELSE "check"])

\* _monitor_loop, line 170: if not self._is_running()
MonCheck ==
    /\ tray.mon.pc = "check"
    /\ TrayStep([tray EXCEPT !.mon.pc = IF is_running(tray) THEN "read" ELSE "restart"])

\* the menu item Restart OCR is chosen
ClickRestart ==
    /\ tray.menu.pc = "idle"
    /\ calls < MaxCalls
    /\ calls' = calls + 1
    /\ tray' = [tray EXCEPT !.menu.pc = "stop1", !.menu.item = "restart"]
    /\ UNCHANGED <<jobs, now, ret, call, sweep, row0, threads, ui, scratch, out,
                   textVars, watch>>

\* the menu item Exit is chosen; _on_exit, line 157: self._stop_event.set()
ClickExit ==
    /\ tray.menu.pc = "idle"
    /\ TrayStep([tray EXCEPT !.menu.pc = "stop1", !.menu.item = "exit",
                             !.stop = TRUE])

\* _stop_watcher, lines 95-100, under the lock: proc = self._proc and
\* self._proc = None; without a process the function returns
MenuStop1 ==
    /\ tray.menu.pc = "stop1"
    /\ TrayStep([tray EXCEPT !.menu.proc = tray.proc, !.proc = 0,
                             !.menu.pc = IF tray.proc # 0 THEN "stop2"
                                         ELSE IF tray.menu.item = "exit" THEN "iconstop"
                                         ELSE "start"])

\* _stop_watcher, lines 102-110, outside the lock: terminate, wait, kill:
\* the process taken is gone
MenuStop2 ==
    /\ tray.menu.pc = "stop2"
    /\ TrayStep([tray EXCEPT !.alive = @ \ {tray.menu.proc},
                             !.menu.pc = IF tray.menu.item = "exit" THEN "iconstop"
                                         ELSE "start"])

\* _on_restart, lines 134-135: the sleep and _start_watcher()
MenuStart ==
    /\ tray.menu.pc = "start"
    /\ TrayStep([start_watcher(tray) EXCEPT !.menu.pc = "read"])

\* _on_restart, line 136: _refresh_icon reads _is_running()
MenuRead ==
    /\ tray.menu.pc = "read"
    /\ TrayStep([tray EXCEPT !.menu.pc = "set", !.menu.r = is_running(tray)])

\* _refresh_icon sets the icon and _on_restart returns
MenuSet ==
    /\ tray.menu.pc = "set"
    /\ TrayStep([tray EXCEPT !.menu.pc = "idle", !.menu.item = "none",
                             !.icon = IF tray.menu.r THEN "green" ELSE "red"])

\* _on_exit, line 159: self.icon.stop(), and _on_exit returns
MenuIconStop ==
    /\ tray.menu.pc = "iconstop"
    /\ TrayStep([tray EXCEPT !.menu.pc = "exited"])

\* main returns after icon.run(): the daemon monitor thread ends with the
\* interpreter, wherever it is
TrayEnd ==
    /\ tray.menu.pc = "exited"
    /\ tray.mon.pc \notin {"end", "dead"}
    /\ TrayStep([tray EXCEPT !.mon.pc = "dead"])

\* a watcher subprocess exits or crashes by itself
WatcherCrash(p) ==
    /\ p \in tray.alive
    /\ calls < MaxCalls
    /\ calls' = calls + 1
    /\ tray' = [tray EXCEPT !.alive = @ \ {p}]
    /\ UNCHANGED <<jobs, now, ret, call, sweep, row0, threads, ui, scratch, out,
                   textVars, watch>>

\* the steps of the monitor thread and of a menu callback under way
MonitorStep == MonStart \/ MonRead \/ MonSet \/ MonLoop \/ MonCheck
MenuStep == MenuStop1 \/ MenuStop2 \/ MenuStart \/ MenuRead \/ MenuSet \/ MenuIconStop

NextTray ==
    \/ TrayRun
    \/ MonStart
    \/ MonRead
    \/ MonSet
    \/ MonLoop
    \/ MonCheck
    \/ ClickRestart
    \/ ClickExit
    \/ MenuStop1
    \/ MenuStop2
    \/ MenuStart
    \/ MenuRead
    \/ MenuSet
    \/ MenuIconStop
    \/ TrayEnd
    \/ \E p \in 1..(tray.next - 1) : WatcherCrash(p)

SpecTray == InitTray /\ [][NextTray]_vars

\* C37: at most one watcher subprocess started by the tray is alive
C37_AtMostOneWatcher == Cardinality(tray.alive) <= 1

\* C38: once _on_exit has returned no watcher subprocess started by the
\* tray is alive
C38_NoWatcherAfterExit == tray.menu.pc = "exited" => tray.alive = {}

\* the threads of the tray run while the process lives: weak fairness on
\* the start, on the monitor thread and on a menu callback under way
SpecTrayLive ==
    /\ InitTray
    /\ [][NextTray]_vars
    /\ WF_vars(TrayRun)
    /\ WF_vars(MonitorStep)
    /\ WF_vars(MenuStep)

\* C39: while Exit has not been chosen, a watcher that is not running is
\* eventually running again, and from some point on the icon shows the
\* state of the watcher
C39_RestartedAndShown ==
    /\ (~tray.stop /\ ~is_running(tray)) ~> (is_running(tray) \/ tray.stop)
    /\ <>[](tray.stop \/ ((tray.icon = "green") <=> is_running(tray)))

\* the monitor loop has found the subprocess it had dead, Exit not chosen
\* and no callback under way, and is about to start another
C39_Witness ==
    /\ tray.mon.pc = "restart"
    /\ tray.menu.pc = "idle"
    /\ ~tray.stop
    /\ tray.proc # 0
    /\ tray.proc \notin tray.alive

----------------------------------------------------------------------------
(* The statuses of the job table *)

\* C40: the status of every row is QUEUED, RUNNING, DONE or FAILED; an
\* upsert_job call goes on with the status in upper case, and writes it or
\* FAILED; a call whose status is outside the four values returns at once
\* and the table stays as it is
C40_StatusesAllowed ==
    /\ [](\A k \in JobKeys : jobs[k].status \in STATUS_ALLOWED \cup {"NONE"})
    /\ [][\A w \in Workers :
            /\ \A c \in RaceCalls :
                  UpsertRead(w, c[1][1], c[1][2], c[2], c[1][3]) =>
                      /\ jobs' = jobs
                      /\ IF Upper(c[1][1]) \in STATUS_ALLOWED
                         THEN /\ call'[w].pc = "read"
                              /\ call'[w].status = Upper(c[1][1])
                         ELSE call'[w] = [NoCall EXCEPT !.pc = "done"]
            /\ UpsertWrite(w) =>
                  jobs'[RaceKey].status \in {call[w].status, "FAILED"}
            /\ call[w] = [NoCall EXCEPT !.pc = "done"] => call'[w] = call[w]]_vars

\* one call was passed a status outside the four values and returned, the
\* other wrote a row in between
C40_Witness ==
    /\ call["w1"] = [NoCall EXCEPT !.pc = "done"]
    /\ call["w2"].pc = "done"
    /\ call["w2"].status = "RUNNING"
    /\ jobs[RaceKey].status = "RUNNING"
    /\ jobs[RaceKey] # row0

====
